---------------------------- MODULE Spec2Model ----------------------------
(* Model of the amanmap rating pipeline: the geometry utilities           *)
(* (computeCentroid, quantizeCoordinate, quantizeCentroid, addJitter,     *)
(* createBboxPolygon, parseBbox, isValidBbox), the rating routes          *)
(* (POST /api/ratings, PATCH and DELETE /api/ratings/[id], POST           *)
(* /api/ratings/flag) and the heatmap route (GET /api/heatmap).           *)
(*                                                                        *)
(* Numbers.  A JavaScript number is modelled as an exact rational         *)
(* <<n, d>> with d > 0, kept in lowest terms.  Coordinates are counted in *)
(* units of 10^-5 degree, so the default grid size 0.001 is 100 units and *)
(* the default jitter bound 0.0003 is 30 units.  Floating-point rounding  *)
(* error (about 10^-16 relative) is not modelled.                         *)
EXTENDS Integers, Sequences, FiniteSets, TLC

VARIABLES
    geo,        \* the geometry utilities applied to one input, stage by stage
    store,      \* the Rating collection: id -> document
    nextId,     \* the id the next created document gets
    jitterLog,  \* id -> the addJitter invocations made for that document
    response,   \* the last HTTP response sent
    calls,      \* the heatmap requests followed step by step, in order of arrival
    now,        \* Date.now(), in minutes
    rateLimitStore, \* rate-limit.ts: key -> entry of the simple limiter
    rateLimiter,    \* enhanced-rate-limit.ts: key -> entry of the singleton's store
    checks,     \* the calls made to the limiters and what they returned, in order
    lastIndex   \* input-sanitizer.ts: lastIndex of each PROFANITY_PATTERNS regex

\* The limiters, their clock and the filter's regular expressions.
limits == <<now, rateLimitStore, rateLimiter, checks, lastIndex>>

vars == <<geo, store, nextId, jitterLog, response, calls, limits>>

-----------------------------------------------------------------------------
(* Bounds of the model and constants of the program.                       *)

\* Point inputs of the pure-function specification range over -MaxCoord..MaxCoord.
MaxCoord == 55

\* Rating documents ever created in one behaviour of Spec.
MaxRatings == 2

\* Rating documents ever created in one behaviour of SpecIngest.
MaxIngested == 1

\* Rating documents ever created in one behaviour of SpecMean.
MaxScored == 3

\* Rating documents ever created in one behaviour of SpecQuery.
MaxQueried == 1

\* Rating documents ever created in one behaviour of SpecConcurrent.
MaxWritten == 1

\* Heatmap requests followed in one behaviour of SpecConcurrent.
MaxCalls == 2

\* Calls made to the simple rate limiter in one behaviour of SpecDaily.
MaxDailyChecks == 12

\* Calls made to the enhanced rate limiter in one behaviour of SpecSliding.
MaxSlidingChecks == 12

\* Calls made to the rate limiters in one behaviour of SpecReject.
MaxRejectChecks == 12

\* Submissions with a note in one behaviour of SpecNotes.
MaxNoted == 3

\* Calls made to the rate limiter by authorize in one behaviour of SpecAuth.
MaxAuthChecks == 7

\* gridSize default of quantizeCoordinate / quantizeCentroid: 0.001 degree.
DefaultGridSize == 100

\* maxJitter default of addJitter: 0.0003 degree.
DefaultMaxJitter == 30

\* Coordinate units per degree (the resolution of the model's numbers).
UnitsPerDegree == 10^5

\* Math.random() returns k / RandomSteps for some k in 0 .. RandomSteps-1: a
\* value of [0, 1), never 1.  With the default jitter bound the offsets are
\* whole units.
RandomSteps == 2 * DefaultMaxJitter

RandomValues == 0 .. (RandomSteps - 1)

-----------------------------------------------------------------------------
(* Exact arithmetic on numbers <<n, d>>.                                   *)

Abs(i) == IF i < 0 THEN -i ELSE i

RECURSIVE GCD(_, _)
GCD(a, b) == IF b = 0 THEN a ELSE GCD(b, a % b)

\* NaN, the value of 0/0 and of Number("abc").
NaN == <<0, 0>>

IsNaN(a) == a[2] = 0

\* The number n/d in lowest terms, d > 0; NaN when d = 0 (the model has no
\* infinities: no code path modelled divides a non-zero number by zero).
Num(n, d) ==
    IF d = 0 THEN NaN
    ELSE LET g == GCD(Abs(n), Abs(d))
             s == IF d < 0 THEN -1 ELSE 1
         IN  <<(s * n) \div g, (s * d) \div g>>

Whole(i) == <<i, 1>>

\* Arithmetic propagates NaN; every comparison with NaN is false.
NumAdd(a, b) == Num(a[1] * b[2] + b[1] * a[2], a[2] * b[2])
NumSub(a, b) == Num(a[1] * b[2] - b[1] * a[2], a[2] * b[2])
NumMul(a, b) == Num(a[1] * b[1], a[2] * b[2])
NumDiv(a, b) == Num(a[1] * b[2], a[2] * b[1])
NumLt(a, b)  == ~IsNaN(a) /\ ~IsNaN(b) /\ a[1] * b[2] < b[1] * a[2]
NumLe(a, b)  == ~IsNaN(a) /\ ~IsNaN(b) /\ a[1] * b[2] <= b[1] * a[2]
NumAbs(a)    == <<Abs(a[1]), a[2]>>

\* Math.round: the nearest integer, a tie going to the larger one.
MathRound(a) == IF IsNaN(a) THEN NaN ELSE Whole((2 * a[1] + a[2]) \div (2 * a[2]))

\* Math.floor
MathFloor(a) == IF IsNaN(a) THEN NaN ELSE Whole(a[1] \div a[2])

-----------------------------------------------------------------------------
(* src/lib/geo (found in src/unnamed/part_003): the geometry utilities.    *)

RECURSIVE SumAxis(_, _, _)
\* The loop "for (const coord of coordinates) x += coord[axis]" from index i on.
SumAxis(coordinates, axis, i) ==
    IF i > Len(coordinates) THEN Whole(0)
    ELSE NumAdd(coordinates[i][axis], SumAxis(coordinates, axis, i + 1))

\* A plausible slip: the average taken over every ring, not the first.
RECURSIVE Flatten(_, _)
Flatten(rings, i) ==
    IF i > Len(rings) THEN <<>> ELSE rings[i] \o Flatten(rings, i + 1)

computeCentroidAllRings(geometry) ==
    IF geometry.type # "Polygon" THEN geometry.coordinates
    ELSE LET coordinates == Flatten(geometry.coordinates, 1)
         IN  <<NumDiv(SumAxis(coordinates, 1, 1), Whole(Len(coordinates))),
               NumDiv(SumAxis(coordinates, 2, 1), Whole(Len(coordinates)))>>

\* A geometry is its type tag, its coordinates and the JSON structure of the
\* coordinates: "numbers" for an array of numbers, "nested" for an array of
\* arrays of arrays of numbers (the empty array counts as "nested").
NoThrow == "none"

\* A computeCentroid that takes every tag but Polygon for a Point (a
\* plausible slip).
computeCentroidThrowsLenient(geometry) ==
    IF geometry.type = "Polygon"
         /\ (geometry.kind = "numbers" \/ Len(geometry.coordinates) = 0)
    THEN "TypeError"
    ELSE NoThrow

\* What computeCentroid throws, NoThrow if it returns: the Error of its last
\* line for a tag that is neither Point nor Polygon, and the TypeError of
\* "for (const coord of coordinates)" when geometry.coordinates[0] is a
\* number or undefined.
computeCentroidThrows(geometry) ==
    IF geometry.type = "Point" THEN NoThrow
    ELSE IF geometry.type = "Polygon"
    THEN IF geometry.kind = "numbers" \/ Len(geometry.coordinates) = 0
         THEN "TypeError"
         ELSE NoThrow
    ELSE "Unsupported geometry type"

\* computeCentroid, where it returns: a Point's coordinates as they are, a
\* Polygon's first ring averaged vertex by vertex (the closing vertex counted
\* like the others; 0 / 0 is NaN for a ring without vertices).
computeCentroid(geometry) ==
    IF geometry.type # "Polygon" THEN geometry.coordinates
    ELSE LET coordinates == geometry.coordinates[1]
         IN  <<NumDiv(SumAxis(coordinates, 1, 1), Whole(Len(coordinates))),
               NumDiv(SumAxis(coordinates, 2, 1), Whole(Len(coordinates)))>>

\* ToNumber of element i of a "nested" array, as "coord / gridSize" applies
\* it: NaN for undefined (no such element), 0 for an empty array (its string
\* is empty), NaN for an array of pairs (its string holds a comma).
NestedToNumber(coordinates, i) ==
    IF i > Len(coordinates) THEN NaN
    ELSE IF coordinates[i] = <<>> THEN Whole(0)
    ELSE NaN

\* The two numbers the arithmetic of quantizeCentroid sees in the centroid of
\* a geometry: the centroid itself, but for a Point with "nested" coordinates.
centroidNumbers(geometry, centroid) ==
    IF geometry.type # "Polygon" /\ geometry.kind = "nested"
    THEN <<NestedToNumber(centroid, 1), NestedToNumber(centroid, 2)>>
    ELSE centroid

\* Plausible slips: Math.floor for Math.round, and the grid index returned
\* without being scaled back.
quantizeCoordinateFloor(coord, gridSize) ==
    NumMul(MathFloor(NumDiv(coord, Whole(gridSize))), Whole(gridSize))

quantizeCoordinateIndex(coord, gridSize) ==
    MathRound(NumDiv(coord, Whole(gridSize)))

\* quantizeCoordinate: Math.round(coord / gridSize) * gridSize
quantizeCoordinate(coord, gridSize) ==
    NumMul(MathRound(NumDiv(coord, Whole(gridSize))), Whole(gridSize))

quantizeCentroid(centroid, gridSize) ==
    <<quantizeCoordinate(centroid[1], gridSize),
      quantizeCoordinate(centroid[2], gridSize)>>

\* Plausible slips: the random value not centred, and a doubled amplitude.
addJitterUncentred(coord, maxJitter, random) ==
    NumAdd(coord, NumMul(NumMul(Num(random, RandomSteps), Whole(2)), Whole(maxJitter)))

addJitterWide(coord, maxJitter, random) ==
    NumAdd(coord,
           NumMul(NumMul(NumSub(Num(random, RandomSteps), Num(1, 2)), Whole(4)),
                  Whole(maxJitter)))

\* addJitter: coord + (Math.random() - 0.5) * 2 * maxJitter, where random is
\* the k of the value k / RandomSteps that Math.random() returned.
addJitter(coord, maxJitter, random) ==
    NumAdd(coord,
           NumMul(NumMul(NumSub(Num(random, RandomSteps), Num(1, 2)), Whole(2)),
                  Whole(maxJitter)))

-----------------------------------------------------------------------------
(* Strings are sequences of one-character strings.  The numerals the model  *)
(* prints and parses are those of whole numbers of units.                   *)

Digits == <<"0", "1", "2", "3", "4", "5", "6", "7", "8", "9">>

DigitValue(c) == CHOOSE v \in 0 .. 9 : Digits[v + 1] = c

IsDigit(c) == \E v \in 0 .. 9 : Digits[v + 1] = c

RECURSIVE NatToString(_)
NatToString(n) ==
    IF n < 10 THEN <<Digits[n + 1]>>
    ELSE Append(NatToString(n \div 10), Digits[(n % 10) + 1])

\* String(number) as the template literal `${x}` applies it: "NaN" for NaN,
\* a leading "-" for a negative number (and "0" for -0).
NumberToString(a) ==
    IF IsNaN(a) THEN <<"N", "a", "N">>
    ELSE IF a[1] < 0 THEN <<"-">> \o NatToString(-a[1])
    ELSE NatToString(a[1])

RECURSIVE DigitsToNat(_, _)
DigitsToNat(s, acc) ==
    IF s = <<>> THEN acc ELSE DigitsToNat(Tail(s), 10 * acc + DigitValue(Head(s)))

AllDigits(s) == s # <<>> /\ \A i \in 1 .. Len(s) : IsDigit(s[i])

\* Number(string): 0 for the empty string, the value of a decimal numeral,
\* NaN for anything else.
StringToNumber(s) ==
    IF s = <<>> THEN Whole(0)
    ELSE IF AllDigits(s) THEN Whole(DigitsToNat(s, 0))
    ELSE IF Head(s) = "-" /\ AllDigits(Tail(s)) THEN Whole(-DigitsToNat(Tail(s), 0))
    ELSE NaN

RECURSIVE LeadingDigits(_)
LeadingDigits(s) ==
    IF s = <<>> \/ ~IsDigit(Head(s)) THEN <<>>
    ELSE <<Head(s)>> \o LeadingDigits(Tail(s))

\* parseInt(string): the value of the longest leading numeral, NaN if none.
ParseInt(s) ==
    LET neg  == s # <<>> /\ Head(s) = "-"
        body == LeadingDigits(IF neg THEN Tail(s) ELSE s)
    IN  IF body = <<>> THEN NaN
        ELSE Whole((IF neg THEN -1 ELSE 1) * DigitsToNat(body, 0))

RECURSIVE SplitFrom(_, _, _)
\* string.split(sep) for a one-character separator: cur is the piece being read.
SplitFrom(s, sep, cur) ==
    IF s = <<>> THEN <<cur>>
    ELSE IF Head(s) = sep THEN <<cur>> \o SplitFrom(Tail(s), sep, <<>>)
    ELSE SplitFrom(Tail(s), sep, Append(cur, Head(s)))

Split(s, sep) == SplitFrom(s, sep, <<>>)

RECURSIVE Join(_, _)
\* array.join(sep)
Join(parts, sep) ==
    IF parts = <<>> THEN <<>>
    ELSE IF Len(parts) = 1 THEN parts[1]
    ELSE parts[1] \o <<sep>> \o Join(Tail(parts), sep)

MapNumber(parts) == [i \in 1 .. Len(parts) |-> StringToNumber(parts[i])]

-----------------------------------------------------------------------------
(* src/lib/geo: the bounding-box utilities.                                 *)

\* createBboxPolygon: the closed ring of the box's four corners.
createBboxPolygon(bbox) ==
    [type |-> "Polygon",
     coordinates |-> << << <<bbox[1], bbox[2]>>, <<bbox[3], bbox[2]>>,
                           <<bbox[3], bbox[4]>>, <<bbox[1], bbox[4]>>,
                           <<bbox[1], bbox[2]>> >> >>]

\* parseBbox: bboxString.split(',').map(Number)
parseBbox(bboxString) == MapNumber(Split(bboxString, ","))

\* isValidBbox
isValidBbox(bbox) ==
    /\ Len(bbox) = 4
    /\ NumLt(bbox[1], bbox[3]) /\ NumLt(bbox[2], bbox[4])
    /\ NumLe(Whole(-180 * UnitsPerDegree), bbox[1])
    /\ NumLe(bbox[3], Whole(180 * UnitsPerDegree))
    /\ NumLe(Whole(-90 * UnitsPerDegree), bbox[2])
    /\ NumLe(bbox[4], Whole(90 * UnitsPerDegree))

-----------------------------------------------------------------------------
(* src/lib/zod-schemas.ts                                                   *)

Categories == {"safety", "amenities", "livability"}

\* A schema with the wrong upper limit (a plausible slip).
ValidCreateScoresLoose(scores) ==
    \A c \in Categories : NumLe(Whole(0), scores[c]) /\ NumLe(scores[c], Whole(20))

\* createRatingSchema.geometry: the tag is Point or Polygon, and the
\* coordinates are two numbers or an array of arrays of pairs of numbers,
\* whichever the tag.
ValidCreateGeometry(geometry) ==
    /\ geometry.type \in {"Point", "Polygon"}
    /\ \/ geometry.kind = "numbers" /\ Len(geometry.coordinates) = 2
       \/ /\ geometry.kind = "nested"
          /\ \A r \in 1 .. Len(geometry.coordinates) :
                \A v \in 1 .. Len(geometry.coordinates[r]) :
                    Len(geometry.coordinates[r][v]) = 2

\* createRatingSchema.scores: three numbers within 0 .. 10.
ValidCreateScores(scores) ==
    \A c \in Categories : NumLe(Whole(0), scores[c]) /\ NumLe(scores[c], Whole(10))

\* updateRatingSchema.scores of PATCH /api/ratings/[id]: within 1 .. 5.
ValidUpdateScores(scores) ==
    \A c \in Categories : NumLe(Whole(1), scores[c]) /\ NumLe(scores[c], Whole(5))

\* heatmapQuerySchema
heatmapQuerySchemaOk(bbox, category, zoom) ==
    /\ LET coords == MapNumber(Split(bbox, ","))
       IN  Len(coords) = 4 /\ \A i \in 1 .. Len(coords) : ~IsNaN(coords[i])
    /\ category \in Categories
    /\ NumLe(Whole(0), zoom) /\ NumLe(zoom, Whole(22))

\* updateRatingStatusSchema
StatusUpdates == {"approved", "rejected"}

-----------------------------------------------------------------------------
(* The Rating collection and the sessions.                                  *)

\* A missing query parameter whose values are character sequences.
Null == <<"null">>

\* An absent session, note or query parameter whose values are names.
Missing == "(missing)"

Users == {"alice", "bob", "admin"}

\* session.user.isAdmin: the user's roles include "admin".
IsAdmin(user) == user = "admin"

Scores(safety, amenities, livability) ==
    [safety |-> Whole(safety), amenities |-> Whole(amenities),
     livability |-> Whole(livability)]

\* containsProfanity(note) / analyzeContent(note): the verdict on a note,
\* abstracted to the note being one of the flagged texts.
FlaggedNotes == {"profane"}

containsProfanity(note) == note \in FlaggedNotes

\* A document that stores the raw centroid (a plausible slip).
ratingDocRawCentroid(userId, validatedFields, jitteredCentroid, status) ==
    [userId |-> userId,
     geometry |-> validatedFields.geometry,
     centroid |-> [type |-> "Point",
                   coordinates |-> computeCentroid(validatedFields.geometry)],
     scores |-> validatedFields.scores,
     note |-> validatedFields.note,
     status |-> status]

\* ratingDoc of POST /api/ratings (deviceId, which nothing reads, left out).
ratingDoc(userId, validatedFields, jitteredCentroid, status) ==
    [userId |-> userId,
     geometry |-> validatedFields.geometry,
     centroid |-> [type |-> "Point", coordinates |-> jitteredCentroid],
     scores |-> validatedFields.scores,
     note |-> validatedFields.note,
     status |-> status]

\* Rating.create: the model's centroid.coordinates is [Number], a cast that
\* refuses NaN, so a document with such a centroid is not inserted.
RatingCreateOk(doc) ==
    \A a \in {1, 2} : ~IsNaN(doc.centroid.coordinates[a])

\* An owner update that derives the centroid again (a plausible slip).
ownerUpdateRejitter(doc, validatedFields) ==
    LET q == quantizeCentroid(computeCentroid(doc.geometry), DefaultGridSize)
    IN  [doc EXCEPT !.scores = validatedFields.scores,
                    !.centroid.coordinates =
                        <<addJitter(q[1], DefaultMaxJitter, 1),
                          addJitter(q[2], DefaultMaxJitter, 1)>>]

\* The update of PATCH /api/ratings/[id] by the owner: scores and note
\* (a note that is undefined is not written).
ownerUpdate(doc, validatedFields) ==
    [doc EXCEPT !.scores = validatedFields.scores,
                !.note = IF "note" \in DOMAIN validatedFields
                         THEN validatedFields.note ELSE @]

\* A status branch open to every session that may update the document (a
\* plausible slip).
statusRequestedByAnyone(session, body) == "status" \in DOMAIN body

\* PATCH /api/ratings/[id] takes its status branch when the session is an
\* admin's and the body carries a status.
statusRequested(session, body) == IsAdmin(session) /\ "status" \in DOMAIN body

\* A status update that also stores the centroid afresh, quantized but not
\* jittered (a plausible slip).
statusUpdateRecentred(doc, status) ==
    [doc EXCEPT !.status = status,
                !.centroid.coordinates =
                    quantizeCentroid(computeCentroid(doc.geometry), DefaultGridSize)]

\* The update of PATCH /api/ratings/[id] by an admin: the status.
statusUpdate(doc, status) == [doc EXCEPT !.status = status]

\* The update of POST /api/ratings/flag.
flagUpdate(doc) == [doc EXCEPT !.status = "pending"]

Remove(f, id) == [k \in DOMAIN f \ {id} |-> f[k]]

Put(f, id, v) == [k \in DOMAIN f \cup {id} |-> IF k = id THEN v ELSE f[k]]

Reply(op, status) == [op |-> op, status |-> status]

NoResponse == [op |-> "none", status |-> 0]

\* A reply together with the session of the request it answers.
ReplyTo(op, status, session) == [op |-> op, status |-> status, session |-> session]

-----------------------------------------------------------------------------
(* The rate limiters (rate-limit.ts, enhanced-rate-limit.ts).  Time is      *)
(* counted in minutes: windowMs, resetTime, blockUntil and the timestamps   *)
(* are minutes; retryAfter is in seconds as in the source.                  *)

\* windowMs default of checkRateLimit: 24 hours (24 * 60 minutes).
DayWindow == 1440

\* limit passed by POST /api/ratings to checkRateLimit.
DailyLimit == 10

\* RATE_LIMITS.
RATE_LIMITS ==
    [ API_GENERAL   |-> [windowMs |-> 15,      maxRequests |-> 100],
      RATING_SUBMIT |-> [windowMs |-> 24 * 60, maxRequests |-> 10],
      AUTH_ATTEMPTS |-> [windowMs |-> 15,      maxRequests |-> 5],
      ADMIN_ACTIONS |-> [windowMs |-> 60,      maxRequests |-> 50] ]

\* The period of the simple limiter's clean-up timer, the period of the
\* enhanced limiter's and the age beyond which the latter drops a request.
SimpleCleanupEvery == 60

CleanupEvery == 5

CleanupAge == 60

\* A value that is undefined (blockUntil, retryAfter): falsy, as 0 is.
Undefined == 0

\* checkRateLimit letting one call more through (a plausible slip: > for >=).
checkRateLimitInclusive(entries, key, limit, windowMs, time) ==
    IF key \notin DOMAIN entries \/ time > entries[key].resetTime
    THEN [store |-> Put(entries, key, [count |-> 1, resetTime |-> time + windowMs]),
          allowed |-> TRUE, remaining |-> limit - 1,
          resetTime |-> time + windowMs]
    ELSE IF entries[key].count > limit
    THEN [store |-> entries, allowed |-> FALSE, remaining |-> 0,
          resetTime |-> entries[key].resetTime]
    ELSE [store |-> [entries EXCEPT ![key].count = @ + 1],
          allowed |-> TRUE, remaining |-> limit - (entries[key].count + 1),
          resetTime |-> entries[key].resetTime]

\* checkRateLimit(key, limit, windowMs) on the store entries at Date.now() =
\* time: the value returned and, as store, the store it leaves.
checkRateLimit(entries, key, limit, windowMs, time) ==
    IF key \notin DOMAIN entries \/ time > entries[key].resetTime
    THEN [store |-> Put(entries, key, [count |-> 1, resetTime |-> time + windowMs]),
          allowed |-> TRUE, remaining |-> limit - 1,
          resetTime |-> time + windowMs]
    ELSE IF entries[key].count >= limit
    THEN [store |-> entries, allowed |-> FALSE, remaining |-> 0,
          resetTime |-> entries[key].resetTime]
    ELSE [store |-> [entries EXCEPT ![key].count = @ + 1],
          allowed |-> TRUE, remaining |-> limit - (entries[key].count + 1),
          resetTime |-> entries[key].resetTime]

\* The callback of rate-limit.ts's setInterval: expired entries are deleted.
rateLimitCleanup(entries, time) ==
    [k \in {k \in DOMAIN entries : ~(time > entries[k].resetTime)} |-> entries[k]]

\* The entry checkLimit creates for a key it does not know.
NewEntry == [requests |-> <<>>, blocked |-> FALSE, blockUntil |-> Undefined]

\* EnhancedRateLimiter.checkLimit(identifier, config) on the store entries at
\* Date.now() = time (no configuration of RATE_LIMITS has a keyGenerator): the
\* value returned and, as store, the store it leaves.
checkLimit(entries, identifier, config, time) ==
    LET key == identifier
        entry == IF key \in DOMAIN entries THEN entries[key] ELSE NewEntry
    IN  IF entry.blocked /\ entry.blockUntil # Undefined /\ time < entry.blockUntil
        THEN [store |-> Put(entries, key, entry),
              allowed |-> FALSE, remaining |-> 0,
              resetTime |-> entry.blockUntil,
              retryAfter |-> (entry.blockUntil - time) * 60]
        ELSE LET windowStart == time - config.windowMs
                 InWindow(timestamp) == timestamp > windowStart
                 requests == SelectSeq(entry.requests, InWindow)
             IN  IF Len(requests) >= config.maxRequests
                 THEN [store |-> Put(entries, key,
                                     [requests |-> requests, blocked |-> TRUE,
                                      blockUntil |-> time + config.windowMs]),
                       allowed |-> FALSE, remaining |-> 0,
                       resetTime |-> time + config.windowMs,
                       retryAfter |-> config.windowMs * 60]
                 ELSE [store |-> Put(entries, key,
                                     [entry EXCEPT !.requests = Append(requests, time)]),
                       allowed |-> TRUE,
                       remaining |-> config.maxRequests - (Len(requests) + 1),
                       resetTime |-> time + config.windowMs,
                       retryAfter |-> Undefined]

\* EnhancedRateLimiter.cleanup() at Date.now() = time.
cleanup(entries, time) ==
    LET Recent(timestamp) == time - timestamp < CleanupAge
        Cleaned(entry) ==
            LET expired == /\ entry.blocked
                           /\ entry.blockUntil # Undefined
                           /\ time > entry.blockUntil
            IN  [requests |-> SelectSeq(entry.requests, Recent),
                 blocked |-> IF expired THEN FALSE ELSE entry.blocked,
                 blockUntil |-> IF expired THEN Undefined ELSE entry.blockUntil]
        kept == {k \in DOMAIN entries :
                    ~(Len(Cleaned(entries[k]).requests) = 0 /\ ~Cleaned(entries[k]).blocked)}
    IN  [k \in kept |-> Cleaned(entries[k])]

\* What checks records of a call: the limiter's function, its key and
\* configuration, the time of the call and the value returned.
Check(limiter, key, config, time, result) ==
    [limiter |-> limiter, key |-> key, config |-> config, time |-> time,
     allowed |-> result.allowed, remaining |-> result.remaining,
     resetTime |-> result.resetTime]

\* Time passes: Date.now() moves on to a later one of the instants followed.
Tick(inputs) ==
    /\ \E time \in inputs.instants : time > now /\ now' = time
    /\ UNCHANGED <<geo, store, nextId, jitterLog, response, calls,
                   rateLimitStore, rateLimiter, checks, lastIndex>>

\* The simple limiter's timer fires (every hour since the module was loaded).
RateLimitCleanup ==
    /\ now % SimpleCleanupEvery = 0
    /\ rateLimitStore' = rateLimitCleanup(rateLimitStore, now)
    /\ UNCHANGED <<geo, store, nextId, jitterLog, response, calls,
                   now, rateLimiter, checks, lastIndex>>

\* The enhanced limiter's timer fires (every 5 minutes since construction).
Cleanup ==
    /\ now % CleanupEvery = 0
    /\ rateLimiter' = cleanup(rateLimiter, now)
    /\ UNCHANGED <<geo, store, nextId, jitterLog, response, calls,
                   now, rateLimitStore, checks, lastIndex>>

-----------------------------------------------------------------------------
(* Text sanitization and the enhanced profanity filter                      *)
(* (input-sanitizer.ts).  A text is a sequence of one-character strings.    *)

UpperCase ==
    <<"A", "B", "C", "D", "E", "F", "G", "H", "I", "J", "K", "L", "M", "N", "O", "P", "Q", "R", "S", "T", "U", "V", "W", "X", "Y", "Z">>

LowerCase ==
    <<"a", "b", "c", "d", "e", "f", "g", "h", "i", "j", "k", "l", "m", "n", "o", "p", "q", "r", "s", "t", "u", "v", "w", "x", "y", "z">>

\* \s of the texts followed: space, tab and line feed.
Whitespace == {" ", "\t", "\n"}

IsUpper(c) == \E i \in 1 .. 26 : UpperCase[i] = c

\* String.prototype.toLowerCase, one character at a time.
toLowerCase(c) ==
    IF IsUpper(c) THEN LowerCase[CHOOSE i \in 1 .. 26 : UpperCase[i] = c] ELSE c

\* \w: a letter, a digit or the underscore.
IsWordChar(c) ==
    \/ \E i \in 1 .. 26 : UpperCase[i] = c \/ LowerCase[i] = c
    \/ IsDigit(c)
    \/ c = "_"

RECURSIVE CollapseWhitespace(_, _, _)
\* replace(/\s+/g, ' '): every run of whitespace becomes one space.
CollapseWhitespace(text, i, acc) ==
    IF i > Len(text) THEN acc
    ELSE IF text[i] \in Whitespace
    THEN IF i > 1 /\ text[i - 1] \in Whitespace
         THEN CollapseWhitespace(text, i + 1, acc)
         ELSE CollapseWhitespace(text, i + 1, Append(acc, " "))
    ELSE CollapseWhitespace(text, i + 1, Append(acc, text[i]))

RECURSIVE trim(_)
\* String.prototype.trim.
trim(text) ==
    IF text = <<>> THEN text
    ELSE IF text[1] \in Whitespace THEN trim(Tail(text))
    ELSE IF text[Len(text)] \in Whitespace THEN trim(SubSeq(text, 1, Len(text) - 1))
    ELSE text

\* InputSanitizer.sanitizeText(input, maxLength) on a text that holds no
\* markup, entity or control character (what sanitizeHtml and the control
\* character filter would remove): whitespace is normalized and the text cut
\* to maxLength.
sanitizeText(input, maxLength) ==
    IF input = <<>> THEN <<>>
    ELSE LET sanitized == trim(CollapseWhitespace(input, 1, <<>>))
         IN  IF Len(sanitized) > maxLength
             THEN trim(SubSeq(sanitized, 1, maxLength))
             ELSE sanitized

\* The regular expression that matches word literally (flag i: word is in
\* lower case and the text is compared in lower case).
Literal(word) == [i \in 1 .. Len(word) |-> {word[i]}]

\* A pattern \b(alternatives): each alternative a sequence of character
\* classes; tail says what follows the alternative: \b when FALSE, \w+ when
\* TRUE.  \s+ is one whitespace class, the texts tested being normalized.
Pattern(alts, tail) == [alts |-> alts, tail |-> tail]

\* EnhancedProfanityFilter.PROFANITY_PATTERNS, all with the flags g and i.
PROFANITY_PATTERNS ==
    << Pattern({Literal(<<"f", "u", "c", "k">>), Literal(<<"s", "h", "i", "t">>),
                Literal(<<"d", "a", "m", "n">>), Literal(<<"h", "e", "l", "l">>),
                Literal(<<"a", "s", "s">>), Literal(<<"b", "i", "t", "c", "h">>)}, FALSE),
       Pattern({<<{"f"}, {"u", "*", "@"}, {"c"}, {"k"}>>}, FALSE),
       Pattern({<<{"s"}, {"h", "*"}, {"i"}, {"t"}>>}, FALSE),
       Pattern({Literal(a) \o <<Whitespace>> \o Literal(b) \o <<Whitespace>> :
                   a \in {<<"h", "a", "t", "e">>, <<"k", "i", "l", "l">>, <<"d", "i", "e">>},
                   b \in {<<"a", "l", "l">>, <<"e", "v", "e", "r", "y">>}}, TRUE) >>

\* The index in lastIndex of the third of SUSPICIOUS_PATTERNS, the only one
\* of them with the flag g.
SpamUrl == Len(PROFANITY_PATTERNS) + 1

\* lastIndex of every regular expression with the flag g when the module is
\* loaded.
FreshIndex == [pattern \in 1 .. SpamUrl |-> 0]

\* \b between the characters p and p + 1 of text.
WordBoundary(text, p) ==
    (p >= 1 /\ p <= Len(text) /\ IsWordChar(text[p]))
        # (p + 1 >= 1 /\ p + 1 <= Len(text) /\ IsWordChar(text[p + 1]))

\* The alternative alt matches text from its character start on.
AltAt(text, start, alt) ==
    /\ start + Len(alt) - 1 <= Len(text)
    /\ \A j \in 1 .. Len(alt) : toLowerCase(text[start + j - 1]) \in alt[j]

RECURSIVE WordRunEnd(_, _)
\* The last character of the run of word characters that starts at p.
WordRunEnd(text, p) ==
    IF p + 1 <= Len(text) /\ IsWordChar(text[p + 1]) THEN WordRunEnd(text, p + 1) ELSE p

\* Where the match of pattern that starts at character start ends: the
\* number of characters up to its end, or 0 if there is none.
MatchEnd(text, start, pattern) ==
    LET fitting == {alt \in pattern.alts :
                       /\ WordBoundary(text, start - 1)
                       /\ AltAt(text, start, alt)
                       /\ IF pattern.tail
                          THEN /\ start + Len(alt) <= Len(text)
                               /\ IsWordChar(text[start + Len(alt)])
                          ELSE WordBoundary(text, start + Len(alt) - 1)}
    IN  IF fitting = {} THEN 0
        ELSE LET alt == CHOOSE alt \in fitting : TRUE
             IN  IF pattern.tail THEN WordRunEnd(text, start + Len(alt))
                 ELSE start + Len(alt) - 1

\* Where the spam URL /https?:\/\/[^\s]+\.(tk|ml|ga|cf)/ that starts at
\* character start ends, or 0: the host is taken as long as possible.
SpamUrlEnd(text, start) ==
    LET Lower(p) == IF p <= Len(text) THEN toLowerCase(text[p]) ELSE ""
        scheme == IF <<Lower(start), Lower(start + 1), Lower(start + 2), Lower(start + 3)>>
                         # <<"h", "t", "t", "p">>
                  THEN 0
                  ELSE IF Lower(start + 4) = "s" THEN 5 ELSE 4
        host == start + scheme + 3
        ends == {q \in host + 1 .. Len(text) - 2 :
                    /\ \A p \in host .. q + 2 : text[p] \notin Whitespace
                    /\ text[q] = "."
                    /\ <<Lower(q + 1), Lower(q + 2)>> \in {<<"t", "k">>, <<"m", "l">>, <<"g", "a">>, <<"c", "f">>}}
    IN  IF scheme = 0 THEN 0
        ELSE IF <<Lower(start + scheme), Lower(start + scheme + 1),
                  Lower(start + scheme + 2)>> # <<":", "/", "/">> THEN 0
        ELSE IF ends = {} THEN 0
        ELSE (CHOOSE q \in ends : \A r \in ends : r <= q) + 2

\* RegExp.prototype.test of a regular expression with the flag g: the search
\* starts at the expression's lastIndex, a match leaves lastIndex at its end
\* and a failure resets it to 0.  ends[start] is where a match starting at
\* the character start ends, or 0.
test(text, from, ends) ==
    LET starts == {start \in from + 1 .. Len(text) : ends[start] # 0}
    IN  IF starts = {} THEN [found |-> FALSE, lastIndex |-> 0]
        ELSE [found |-> TRUE,
              lastIndex |-> ends[CHOOSE start \in starts : \A s \in starts : start <= s]]

RECURSIVE some(_, _, _)
\* PROFANITY_PATTERNS.some(pattern => pattern.test(text)), from pattern p on:
\* the patterns are tested in order until one matches.
some(text, index, p) ==
    IF p > Len(PROFANITY_PATTERNS) THEN [found |-> FALSE, lastIndex |-> index]
    ELSE LET ends == [start \in 1 .. Len(text) |->
                          MatchEnd(text, start, PROFANITY_PATTERNS[p])]
             tested == test(text, index[p], ends)
             after == [index EXCEPT ![p] = tested.lastIndex]
         IN  IF tested.found THEN [found |-> TRUE, lastIndex |-> after]
             ELSE some(text, after, p + 1)

\* EnhancedProfanityFilter.containsProfanity(text) with the expressions'
\* lastIndex as index: the verdict and the lastIndex it leaves.
EnhancedContainsProfanity(text, index) ==
    IF text = <<>> THEN [found |-> FALSE, lastIndex |-> index]
    ELSE some(text, index, 1)

\* /(.)\1{10,}/: a character followed by ten or more copies of itself.
RepeatedCharacters(text) ==
    \E i \in 1 .. Len(text) - 10 :
        text[i] # "\n" /\ \A j \in 1 .. 10 : text[i + j] = text[i]

\* /[A-Z]{20,}/: twenty capital letters in a row.
ExcessiveCaps(text) ==
    \E i \in 1 .. Len(text) - 19 : \A j \in 0 .. 19 : IsUpper(text[i + j])

\* EnhancedProfanityFilter.containsSuspiciousContent(text): the patterns are
\* tested in order until one matches.
containsSuspiciousContent(text, index) ==
    IF text = <<>> \/ RepeatedCharacters(text) \/ ExcessiveCaps(text)
    THEN [found |-> text # <<>>, lastIndex |-> index]
    ELSE LET ends == [start \in 1 .. Len(text) |-> SpamUrlEnd(text, start)]
             tested == test(text, index[SpamUrl], ends)
         IN  [found |-> tested.found,
              lastIndex |-> [index EXCEPT ![SpamUrl] = tested.lastIndex]]

\* EnhancedProfanityFilter.analyzeContent(text) with the expressions'
\* lastIndex as index (reasons, which nothing reads, left out).
analyzeContent(text, index) ==
    LET profanity == EnhancedContainsProfanity(text, index)
        suspicious == containsSuspiciousContent(text, profanity.lastIndex)
        lines == Len(SelectSeq(text, LAMBDA c : c = "\n")) + 1
        riskScore == (IF profanity.found THEN 50 ELSE 0)
                     + (IF suspicious.found THEN 30 ELSE 0)
                     + (IF Len(text) > 1000 THEN 10 ELSE 0)
                     + (IF lines > 20 THEN 15 ELSE 0)
    IN  [hasProfanity |-> profanity.found,
         isSuspicious |-> suspicious.found,
         riskScore |-> IF riskScore < 100 THEN riskScore ELSE 100,
         lastIndex |-> suspicious.lastIndex]

-----------------------------------------------------------------------------
(* The credentials provider's authorize (auth.ts) and sanitizeEmail.        *)

\* The text holds the two-character text pair somewhere.
includes(text, pair) ==
    \E i \in 1 .. Len(text) - 1 : <<text[i], text[i + 1]>> = pair

\* /^[^\s@]+@[^\s@]+\.[^\s@]+$/ : no whitespace, one @ with something before
\* it, and after it a dot with something on both sides.
emailRegex(text) ==
    /\ \A i \in 1 .. Len(text) : text[i] \notin Whitespace
    /\ \E a \in 2 .. Len(text) :
          /\ text[a] = "@"
          /\ \A i \in 1 .. Len(text) : text[i] = "@" => i = a
          /\ \E q \in a + 2 .. Len(text) - 1 : text[q] = "."

\* What sanitizeEmail works on: email.toLowerCase().trim().
LoweredAndTrimmed(email) == trim([i \in 1 .. Len(email) |-> toLowerCase(email[i])])

\* InputSanitizer.sanitizeEmail throws 'Invalid email format'.
sanitizeEmailThrows(email) ==
    LET sanitized == LoweredAndTrimmed(email)
    IN  \/ ~emailRegex(sanitized)
        \/ includes(sanitized, <<".", ".">>)
        \/ includes(sanitized, <<"-", "-">>)

\* InputSanitizer.sanitizeEmail(email), when it does not throw.
sanitizeEmail(email) == LoweredAndTrimmed(email)

\* loginSchema on a sanitized address and a password: z.string().email() (a
\* local part of word characters, dots, plus and minus signs that neither
\* starts nor ends with a dot; a domain of labels of letters, digits and
\* hyphens, the last of two letters or more) and a password of at least one
\* character.
ValidLogin(email, password) ==
    /\ password # ""
    /\ emailRegex(email)
    /\ ~includes(email, <<".", ".">>)
    /\ LET a == CHOOSE a \in 1 .. Len(email) : email[a] = "@"
           lastDot == CHOOSE q \in a .. Len(email) :
                          /\ email[q] = "."
                          /\ \A r \in q + 1 .. Len(email) : email[r] # "."
       IN  /\ email[1] # "." /\ email[a - 1] # "."
           /\ \A i \in 1 .. a - 1 : IsWordChar(email[i]) \/ email[i] \in {".", "+", "-"}
           /\ \A i \in a + 1 .. Len(email) :
                 \/ IsWordChar(email[i]) /\ email[i] # "_"
                 \/ email[i] = "-" /\ i > a + 1 /\ email[i - 1] # "."
                 \/ email[i] = "." /\ i > a + 1
           /\ Len(email) - lastDot >= 2
           /\ \A i \in lastDot + 1 .. Len(email) :
                 \E l \in 1 .. 26 : LowerCase[l] = email[i] \/ UpperCase[l] = email[i]

\* The User collection: one account, its address and its password.
Account == <<"a", "@", "b", ".", "i", "o">>

AccountPassword == "secret"

\* What authorize answers: the user's id, or Null for null.
Authorized(user) == [op |-> "authorize", status |-> 0, user |-> user]

\* What checks records of an authorize call: the limiter's call and result,
\* and the address the call went on to look up, to compare the password of
\* its user (Null when it did not get that far).
Attempt(key, time, result, lookup) ==
    [limiter |-> "checkLimit", key |-> key, config |-> "AUTH_ATTEMPTS",
     time |-> time, allowed |-> result.allowed, remaining |-> result.remaining,
     resetTime |-> result.resetTime, lookup |-> lookup]

\* The identifier authorize passes to the limiter: credentials.email as
\* submitted.
authKey(email) == email

\* authorize(credentials): inputs.emails and inputs.passwords are the
\* credentials submitted, inputs.db whether dbConnect succeeds.
authorize(inputs) ==
    /\ Len(checks) < inputs.maxChecks
    /\ \E email \in inputs.emails, password \in inputs.passwords, db \in inputs.db :
          IF email = <<>> \/ password = ""
          THEN /\ response' = Authorized(Null)
               /\ UNCHANGED <<rateLimiter, checks>>
          ELSE LET rateLimit == checkLimit(rateLimiter, authKey(email),
                                           RATE_LIMITS.AUTH_ATTEMPTS, now)
                   reached == /\ rateLimit.allowed
                              /\ ~sanitizeEmailThrows(email)
                              /\ ValidLogin(sanitizeEmail(email), password)
                              /\ db
                   found == reached /\ sanitizeEmail(email) = Account
               IN  /\ rateLimiter' = rateLimit.store
                   /\ checks' = Append(checks,
                                       Attempt(authKey(email), now, rateLimit,
                                               IF reached THEN sanitizeEmail(email)
                                               ELSE Null))
                   /\ response' = IF found /\ password = AccountPassword
                                  THEN Authorized(Account)
                                  ELSE Authorized(Null)
    /\ UNCHANGED <<geo, store, nextId, jitterLog, calls, now, rateLimitStore, lastIndex>>

-----------------------------------------------------------------------------
(* POST /api/ratings.  The handlers run to completion in one step: each     *)
(* writes the collection once, at its last database call.                   *)

\* The status route.ts gives a submission: pending when containsProfanity
\* flags its note.
statusOfNote(note) ==
    IF note # Missing /\ containsProfanity(note) THEN "pending" ELSE "approved"

\* The status part_012 gives a submission whose note, sanitized, has the
\* analysis given.
statusOfAnalysis(contentAnalysis) ==
    IF \/ contentAnalysis.hasProfanity
       \/ contentAnalysis.isSuspicious
       \/ contentAnalysis.riskScore > 30
    THEN "pending" ELSE "approved"

\* A rate limiter consulted for every authenticated request, before the
\* body is validated (a plausible slip).
limitedUnvalidated(valid, session, db) == session # Missing /\ db

\* POST /api/ratings consults its rate limiter once createRatingSchema has
\* accepted the body, requireAuth has found a session and dbConnect has
\* succeeded.
limited(valid, session, db) == valid /\ session # Missing /\ db

\* createRatingSchema on what both versions of the handler validate alike,
\* and on a note that is a text (max(140), optional).
ValidCreateBody(body) ==
    ValidCreateGeometry(body.geometry) /\ ValidCreateScores(body.scores)

ValidCreateNote(note) == note = Null \/ Len(note) <= 140

\* POST /api/ratings, both versions, for one request: valid is the verdict of
\* createRatingSchema, db whether dbConnect succeeds, allowed the rate
\* limiter's verdict, random the two values Math.random() returns, note the
\* note stored and status the status the content check gives it.
PostRating(session, body, random, db, valid, allowed, note, status) ==
    IF ~valid
    THEN /\ response' = Reply("POST /api/ratings", 400)
         /\ UNCHANGED <<store, nextId, jitterLog>>
    ELSE IF session = Missing
    THEN /\ response' = Reply("POST /api/ratings", 401)
         /\ UNCHANGED <<store, nextId, jitterLog>>
    ELSE IF ~db
    THEN /\ response' = Reply("POST /api/ratings", 503)
         /\ UNCHANGED <<store, nextId, jitterLog>>
    ELSE IF ~allowed
    THEN /\ response' = Reply("POST /api/ratings", 429)
         /\ UNCHANGED <<store, nextId, jitterLog>>
    ELSE IF computeCentroidThrows(body.geometry) # NoThrow
    THEN /\ response' = Reply("POST /api/ratings", 500)
         /\ UNCHANGED <<store, nextId, jitterLog>>
    ELSE LET centroid == computeCentroid(body.geometry)
             quantizedCentroid ==
                 quantizeCentroid(centroidNumbers(body.geometry, centroid),
                                  DefaultGridSize)
             call1 == [coord |-> quantizedCentroid[1], random |-> random[1],
                       result |-> addJitter(quantizedCentroid[1],
                                            DefaultMaxJitter, random[1])]
             call2 == [coord |-> quantizedCentroid[2], random |-> random[2],
                       result |-> addJitter(quantizedCentroid[2],
                                            DefaultMaxJitter, random[2])]
             jitteredCentroid == <<call1.result, call2.result>>
             validatedFields == [body EXCEPT !.note = note]
         IN  IF ~RatingCreateOk(ratingDoc(session, validatedFields, jitteredCentroid, status))
             THEN /\ response' = Reply("POST /api/ratings", 500)
                  /\ UNCHANGED <<store, nextId, jitterLog>>
             ELSE /\ store' = Put(store, nextId,
                                  ratingDoc(session, validatedFields,
                                            jitteredCentroid, status))
                  /\ jitterLog' = Put(jitterLog, nextId, <<call1, call2>>)
                  /\ nextId' = nextId + 1
                  /\ response' = Reply("POST /api/ratings", 200)

\* inputs.submitters are the sessions that submit, inputs.submissions the
\* request bodies, each with the two values Math.random() returns for it,
\* inputs.maxRatings the number of documents ever created; db is whether
\* dbConnect succeeds.  POST /api/ratings with the rate limiter left open:
\* allowed is any verdict it may give.
POST_ratings(inputs) ==
    /\ nextId <= inputs.maxRatings
    /\ \E session \in inputs.submitters, submission \in inputs.submissions,
          db \in inputs.db, allowed \in inputs.allowed :
          PostRating(session, submission.body, submission.random, db,
                     ValidCreateBody(submission.body), allowed,
                     submission.body.note, statusOfNote(submission.body.note))
    /\ UNCHANGED <<geo, calls, limits>>

\* POST /api/ratings of route.ts, with its limiter: checkRateLimit(session.
\* user.id, 10).  inputs.maxChecks bounds the calls made to the limiter.
POST_ratings_checkRateLimit(inputs) ==
    /\ nextId <= inputs.maxRatings
    /\ Len(checks) < inputs.maxChecks
    /\ \E session \in inputs.submitters, submission \in inputs.submissions,
          db \in inputs.db :
          LET body == submission.body
              valid == ValidCreateBody(body)
              rateLimit == checkRateLimit(rateLimitStore, session, DailyLimit,
                                          DayWindow, now)
          IN  IF limited(valid, session, db)
              THEN /\ rateLimitStore' = rateLimit.store
                   /\ checks' = Append(checks, Check("checkRateLimit", session,
                                                      "daily", now, rateLimit))
                   /\ PostRating(session, body, submission.random, db, valid,
                                 rateLimit.allowed, body.note, statusOfNote(body.note))
              ELSE /\ UNCHANGED <<rateLimitStore, checks>>
                   /\ PostRating(session, body, submission.random, db, valid,
                                 TRUE, body.note, statusOfNote(body.note))
    /\ UNCHANGED <<geo, calls, now, rateLimiter, lastIndex>>

\* POST /api/ratings of part_012, with its limiter and its content analysis:
\* checkEnhancedRateLimit(session.user.id, 'RATING_SUBMIT'), and
\* analyzeContent of the sanitized note, which is the note stored.  The notes
\* are texts, Null when the body has none.
POST_ratings_enhanced(inputs) ==
    /\ nextId <= inputs.maxRatings
    /\ Len(checks) < inputs.maxChecks
    /\ \E session \in inputs.submitters, submission \in inputs.submissions,
          db \in inputs.db :
          LET body == submission.body
              valid == ValidCreateBody(body) /\ ValidCreateNote(body.note)
              rateLimit == checkLimit(rateLimiter, session,
                                      RATE_LIMITS.RATING_SUBMIT, now)
              noted == body.note # Null /\ body.note # <<>>
              sanitizedNote == IF noted THEN sanitizeText(body.note, 140) ELSE body.note
              contentAnalysis == analyzeContent(sanitizedNote, lastIndex)
              status == IF noted THEN statusOfAnalysis(contentAnalysis) ELSE "approved"
          IN  IF limited(valid, session, db)
              THEN /\ rateLimiter' = rateLimit.store
                   /\ checks' = Append(checks, Check("checkLimit", session,
                                                      "RATING_SUBMIT", now, rateLimit))
                   /\ lastIndex' =
                         IF /\ rateLimit.allowed
                            /\ computeCentroidThrows(body.geometry) = NoThrow
                            /\ noted
                         THEN contentAnalysis.lastIndex ELSE lastIndex
                   /\ PostRating(session, body, submission.random, db, valid,
                                 rateLimit.allowed, sanitizedNote, status)
              ELSE /\ UNCHANGED <<rateLimiter, checks, lastIndex>>
                   /\ PostRating(session, body, submission.random, db, valid,
                                 TRUE, sanitizedNote, status)
    /\ UNCHANGED <<geo, calls, now, rateLimitStore>>

-----------------------------------------------------------------------------
(* PATCH and DELETE /api/ratings/[id], POST /api/ratings/flag.              *)

\* id is the path parameter, body the request body; db is whether dbConnect
\* succeeds.
PATCH_rating(inputs) ==
    /\ \E session \in inputs.sessions, id \in 1 .. inputs.maxRatings,
          body \in inputs.patches, db \in inputs.db :
          IF session = Missing
          THEN /\ response' = ReplyTo("PATCH /api/ratings/[id]", 401, session)
               /\ UNCHANGED store
          ELSE IF ~db
          THEN /\ response' = ReplyTo("PATCH /api/ratings/[id]", 500, session)
               /\ UNCHANGED store
          ELSE IF id \notin DOMAIN store
          THEN /\ response' = ReplyTo("PATCH /api/ratings/[id]", 404, session)
               /\ UNCHANGED store
          ELSE IF store[id].userId # session /\ ~IsAdmin(session)
          THEN /\ response' = ReplyTo("PATCH /api/ratings/[id]", 403, session)
               /\ UNCHANGED store
          ELSE IF statusRequested(session, body)
          THEN IF body.status \in StatusUpdates
               THEN /\ store' = [store EXCEPT ![id] = statusUpdate(@, body.status)]
                    /\ response' = ReplyTo("PATCH /api/ratings/[id]", 200, session)
               ELSE /\ response' = ReplyTo("PATCH /api/ratings/[id]", 400, session)
                    /\ UNCHANGED store
          ELSE IF "scores" \in DOMAIN body /\ ValidUpdateScores(body.scores)
               THEN /\ store' = [store EXCEPT ![id] = ownerUpdate(@, body)]
                    /\ response' = ReplyTo("PATCH /api/ratings/[id]", 200, session)
               ELSE /\ response' = ReplyTo("PATCH /api/ratings/[id]", 400, session)
                    /\ UNCHANGED store
    /\ UNCHANGED <<geo, nextId, jitterLog, calls, limits>>

DELETE_rating(inputs) ==
    /\ \E session \in inputs.sessions, id \in 1 .. inputs.maxRatings,
          db \in inputs.db :
          IF session = Missing
          THEN /\ response' = Reply("DELETE /api/ratings/[id]", 401)
               /\ UNCHANGED <<store, jitterLog>>
          ELSE IF ~db
          THEN /\ response' = Reply("DELETE /api/ratings/[id]", 500)
               /\ UNCHANGED <<store, jitterLog>>
          ELSE IF id \notin DOMAIN store
          THEN /\ response' = Reply("DELETE /api/ratings/[id]", 404)
               /\ UNCHANGED <<store, jitterLog>>
          ELSE IF store[id].userId # session /\ ~IsAdmin(session)
          THEN /\ response' = Reply("DELETE /api/ratings/[id]", 403)
               /\ UNCHANGED <<store, jitterLog>>
          ELSE /\ store' = Remove(store, id)
               /\ jitterLog' = Remove(jitterLog, id)
               /\ response' = Reply("DELETE /api/ratings/[id]", 200)
    /\ UNCHANGED <<geo, nextId, calls, limits>>

\* reason is the flag's reason: flagRatingSchema wants it non-empty.
POST_flag(inputs) ==
    /\ \E session \in inputs.sessions, ratingId \in 1 .. inputs.maxRatings,
          reason \in inputs.reasons, db \in inputs.db :
          IF session = Missing
          THEN /\ response' = Reply("POST /api/ratings/flag", 401)
               /\ UNCHANGED store
          ELSE IF reason = <<>>
          THEN /\ response' = Reply("POST /api/ratings/flag", 400)
               /\ UNCHANGED store
          ELSE IF ~db
          THEN /\ response' = Reply("POST /api/ratings/flag", 500)
               /\ UNCHANGED store
          ELSE IF ratingId \notin DOMAIN store
          THEN /\ response' = Reply("POST /api/ratings/flag", 404)
               /\ UNCHANGED store
          ELSE /\ store' = [store EXCEPT ![ratingId] = flagUpdate(@)]
               /\ response' = Reply("POST /api/ratings/flag", 200)
    /\ UNCHANGED <<geo, nextId, jitterLog, calls, limits>>

-----------------------------------------------------------------------------
(* GET /api/heatmap (found in src/lib/auth.ts from line 126 on).            *)

RECURSIVE SortedIds(_)
\* The ids of a set in ascending order: the collection's natural order.
SortedIds(ids) ==
    IF ids = {} THEN <<>>
    ELSE LET m == CHOOSE i \in ids : \A j \in ids : i <= j
         IN  <<m>> \o SortedIds(ids \ {m})

\* $geoWithin of a point in the polygon createBboxPolygon built: the point is
\* between the box's west and east and between its south and north (the
\* box's edges taken as straight in longitude/latitude, border included).
GeoWithin(point, polygon) ==
    LET ring == polygon.coordinates[1]
    IN  /\ NumLe(ring[1][1], point[1]) /\ NumLe(point[1], ring[3][1])
        /\ NumLe(ring[1][2], point[2]) /\ NumLe(point[2], ring[3][2])

\* A query that forgets the status (a plausible slip).
MatchesAnyStatus(doc, bboxPolygon) ==
    GeoWithin(doc.centroid.coordinates, bboxPolygon)

\* A query that forgets the box (a plausible slip).
MatchesAnywhere(doc, bboxPolygon) == doc.status = "approved"

\* The filter of Rating.find: { status: 'approved', centroid: { $geoWithin } }.
Matches(doc, bboxPolygon) ==
    /\ doc.status = "approved"
    /\ GeoWithin(doc.centroid.coordinates, bboxPolygon)

\* Rating.find(...).select('centroid scores'): the matching documents' ids in
\* natural order (the id stands for the selected document).
FindRatings(st, bboxPolygon) ==
    SortedIds({ id \in DOMAIN st : Matches(st[id], bboxPolygon) })

\* A key that repeats one axis (a plausible slip).
cellKeyLatTwice(quantized) ==
    NumberToString(quantized[2]) \o <<",">> \o NumberToString(quantized[2])

\* cellKey: `${quantized[0]},${quantized[1]}`
cellKey(quantized) ==
    NumberToString(quantized[1]) \o <<",">> \o NumberToString(quantized[2])

EmptyCellMap == [keys |-> <<>>, cells |-> <<>>]

RECURSIVE GroupRatings(_, _, _, _, _)
\* ratings.forEach(...) from index i on: cellMap is a Map, its keys kept in
\* insertion order.
GroupRatings(st, ratings, category, i, cellMap) ==
    IF i > Len(ratings) THEN cellMap
    ELSE LET rating == st[ratings[i]]
             quantized == quantizeCentroid(rating.centroid.coordinates, DefaultGridSize)
             key == cellKey(quantized)
             score == rating.scores[category]
             had == key \in DOMAIN cellMap.cells
             cell == IF had THEN cellMap.cells[key] ELSE [scores |-> <<>>, count |-> 0]
             next == [keys |-> IF had THEN cellMap.keys ELSE Append(cellMap.keys, key),
                      cells |-> Put(cellMap.cells, key,
                                    [scores |-> Append(cell.scores, score),
                                     count |-> cell.count + 1])]
         IN  GroupRatings(st, ratings, category, i + 1, next)

RECURSIVE SumScores(_, _)
\* data.scores.reduce((a, b) => a + b, 0)
SumScores(scores, i) ==
    IF i > Len(scores) THEN Whole(0) ELSE NumAdd(scores[i], SumScores(scores, i + 1))

\* A feature whose weight is taken from the rounded mean (a plausible slip).
FeatureWeightOfRounded(key, data) ==
    LET lngLat == MapNumber(Split(key, ","))
        averageScore == NumDiv(SumScores(data.scores, 1), Whole(Len(data.scores)))
        rounded == NumDiv(MathRound(NumMul(averageScore, Whole(10))), Whole(10))
    IN  [coordinates |-> <<lngLat[1], lngLat[2]>>,
         weight |-> NumDiv(rounded, Whole(10)),
         count |-> data.count,
         averageScore |-> rounded]

\* One GeoJSON feature of the response.
Feature(key, data) ==
    LET lngLat == MapNumber(Split(key, ","))
        averageScore == NumDiv(SumScores(data.scores, 1), Whole(Len(data.scores)))
        weight == NumDiv(averageScore, Whole(10))
    IN  [coordinates |-> <<lngLat[1], lngLat[2]>>,
         weight |-> weight,
         count |-> data.count,
         averageScore |-> NumDiv(MathRound(NumMul(averageScore, Whole(10))), Whole(10))]

\* The features for the documents found (ratings, their ids in docs), one per
\* entry of cellMap, in the Map's order.
FeaturesOf(docs, ratings, category) ==
    LET cellMap == GroupRatings(docs, ratings, category, 1, EmptyCellMap)
    IN  [i \in 1 .. Len(cellMap.keys) |->
            Feature(cellMap.keys[i], cellMap.cells[cellMap.keys[i]])]

\* The query and the aggregation of its result.
HeatFeatures(st, bboxCoords, category) ==
    FeaturesOf(st, FindRatings(st, createBboxPolygon(bboxCoords)), category)

\* An error response; request is the query string it answers.
HeatError(request, status, error) ==
    [op |-> "GET /api/heatmap", status |-> status, request |-> request,
     error |-> error]

\* A default that overrides the parameter (a plausible slip).
categoryOrDefaultFixed(categoryParam) == "safety"

\* searchParams.get('category') || 'safety'
categoryOrDefault(categoryParam) ==
    IF categoryParam = Missing \/ categoryParam = "" THEN "safety" ELSE categoryParam

\* parseInt(searchParams.get('zoom') || '10')
zoomOrDefault(zoomParam) ==
    ParseInt(IF zoomParam = Null \/ zoomParam = <<>> THEN <<"1", "0">> ELSE zoomParam)

\* A handler that leaves the features out below zoom 10 (a plausible slip).
heatmapResponseZoomed(st, bboxParam, categoryParam, zoomParam, db) ==
    LET request == [bbox |-> bboxParam, category |-> categoryParam,
                    zoom |-> zoomParam]
        bbox == bboxParam
        category == categoryOrDefault(categoryParam)
        zoom == zoomOrDefault(zoomParam)
    IN  IF bbox = Null \/ bbox = <<>>
        THEN HeatError(request, 400, "bbox parameter is required")
        ELSE IF ~heatmapQuerySchemaOk(bbox, category, zoom)
        THEN HeatError(request, 400, "Invalid query parameters")
        ELSE IF ~isValidBbox(parseBbox(bbox))
        THEN HeatError(request, 400, "Invalid bbox coordinates")
        ELSE IF ~db
        THEN HeatError(request, 500, "Internal server error")
        ELSE [op |-> "GET /api/heatmap", status |-> 200,
              request |-> request,
              bbox |-> parseBbox(bbox), category |-> category,
              found |-> FindRatings(st, createBboxPolygon(parseBbox(bbox))),
              features |-> IF NumLt(zoom, Whole(10)) THEN <<>>
                           ELSE HeatFeatures(st, parseBbox(bbox), category)]

\* The handler's response.  bboxParam, categoryParam and zoomParam are
\* searchParams.get(...) of the three parameters (Null or Missing when
\* absent); db is whether dbConnect and the query succeed.  A 200 response
\* holds the feature collection; found is what Rating.find returned for it.
heatmapResponse(st, bboxParam, categoryParam, zoomParam, db) ==
    LET request == [bbox |-> bboxParam, category |-> categoryParam,
                    zoom |-> zoomParam]
        bbox == bboxParam
        category == categoryOrDefault(categoryParam)
        zoom == zoomOrDefault(zoomParam)
    IN  IF bbox = Null \/ bbox = <<>>
        THEN HeatError(request, 400, "bbox parameter is required")
        ELSE IF ~heatmapQuerySchemaOk(bbox, category, zoom)
        THEN HeatError(request, 400, "Invalid query parameters")
        ELSE IF ~isValidBbox(parseBbox(bbox))
        THEN HeatError(request, 400, "Invalid bbox coordinates")
        ELSE IF ~db
        THEN HeatError(request, 500, "Internal server error")
        ELSE [op |-> "GET /api/heatmap", status |-> 200,
              request |-> request,
              bbox |-> parseBbox(bbox), category |-> category,
              found |-> FindRatings(st, createBboxPolygon(parseBbox(bbox))),
              features |-> HeatFeatures(st, parseBbox(bbox), category)]

GET_heatmap(inputs) ==
    /\ \E bboxParam \in inputs.bboxes, categoryParam \in inputs.categories,
          zoomParam \in inputs.zooms, db \in inputs.db :
          response' = heatmapResponse(store, bboxParam, categoryParam, zoomParam, db)
    /\ UNCHANGED <<geo, store, nextId, jitterLog, calls, limits>>

\* The handler followed across its awaits.  A call is the request, the stage
\* it has reached, the documents its query returned (found: id -> the
\* selected fields) and its response.
NoDocuments == <<>>

Call(stage, request, found, resp) ==
    [stage |-> stage, request |-> request, found |-> found, response |-> resp]

\* Up to "await dbConnect()": the parameters are read and validated.
HeatStart(inputs) ==
    /\ Len(calls) < inputs.maxCalls
    /\ \E bboxParam \in inputs.bboxes, categoryParam \in inputs.categories,
          zoomParam \in inputs.zooms :
          LET request == [bbox |-> bboxParam, category |-> categoryParam,
                          zoom |-> zoomParam]
              early == heatmapResponse(<<>>, bboxParam, categoryParam, zoomParam, TRUE)
          IN  calls' = Append(calls,
                              IF early.status = 400
                              THEN Call("done", request, NoDocuments, early)
                              ELSE Call("validated", request, NoDocuments, NoResponse))
    /\ UNCHANGED <<geo, store, nextId, jitterLog, response, limits>>

\* select('centroid scores') on the documents the filter matches now.
Selected(st, bboxPolygon) ==
    [id \in { i \in DOMAIN st : Matches(st[i], bboxPolygon) } |->
        [centroid |-> st[id].centroid, scores |-> st[id].scores]]

\* "await dbConnect()" and "await Rating.find(...)": the call receives the
\* documents that match now, or the failure.
HeatFind(inputs) ==
    /\ \E c \in 1 .. Len(calls), db \in inputs.db :
          /\ calls[c].stage = "validated"
          /\ calls' =
                [calls EXCEPT ![c] =
                    IF ~db
                    THEN Call("done", @.request, NoDocuments,
                              HeatError(@.request, 500, "Internal server error"))
                    ELSE Call("found", @.request,
                              Selected(store,
                                       createBboxPolygon(parseBbox(@.request.bbox))),
                              NoResponse)]
    /\ UNCHANGED <<geo, store, nextId, jitterLog, response, limits>>

\* A handler that reads the collection again when it aggregates (a plausible
\* slip: state shared with the writers).
ratingsOfCallLive(st, call) ==
    Selected(st, createBboxPolygon(parseBbox(call.request.bbox)))

\* ratings: the array the handler iterates, its own query's result.
ratingsOfCall(st, call) == call.found

\* From "const cellMap = new Map()" to the response: the call aggregates its
\* documents in a Map of its own.
HeatAggregate ==
    /\ \E c \in 1 .. Len(calls) :
          /\ calls[c].stage = "found"
          /\ LET ratings == ratingsOfCall(store, calls[c])
                 request == calls[c].request
                 category == categoryOrDefault(request.category)
             IN  calls' =
                   [calls EXCEPT ![c] =
                       Call("done", request, @.found,
                            [op |-> "GET /api/heatmap", status |-> 200,
                             request |-> request,
                             bbox |-> parseBbox(request.bbox), category |-> category,
                             found |-> SortedIds(DOMAIN ratings),
                             features |-> FeaturesOf(ratings, SortedIds(DOMAIN ratings),
                                                     category)])]
    /\ UNCHANGED <<geo, store, nextId, jitterLog, response, limits>>

-----------------------------------------------------------------------------
(* The geometry utilities applied to one input: centroid, quantize, jitter, *)
(* quantize again.                                                          *)

Geometry(type, kind, coordinates) ==
    [type |-> type, kind |-> kind, coordinates |-> coordinates]

Point(x, y) ==
    [type |-> "Point", kind |-> "numbers", coordinates |-> <<Whole(x), Whole(y)>>]

Ring(pts) == [i \in 1 .. Len(pts) |-> <<Whole(pts[i][1]), Whole(pts[i][2])>>]

Polygon(rings) ==
    [type |-> "Polygon", kind |-> "nested",
     coordinates |-> [i \in 1 .. Len(rings) |-> Ring(rings[i])]]

\* The square of the spec, 2 degrees wide, with its closing vertex.
SquareRing ==
    <<<<0, 0>>, <<0, 2 * UnitsPerDegree>>, <<2 * UnitsPerDegree, 2 * UnitsPerDegree>>,
      <<2 * UnitsPerDegree, 0>>, <<0, 0>>>>

\* A triangle whose vertex average is no whole number of units.
TriangleRing == <<<<0, 0>>, <<130, 0>>, <<0, 75>>, <<0, 0>>>>

HoleRing == <<<<10, 10>>, <<10, 900>>, <<900, 900>>, <<10, 10>>>>

GeoPolygons ==
    { Polygon(<<SquareRing>>), Polygon(<<SquareRing, HoleRing>>),
      Polygon(<<TriangleRing>>), Polygon(<<TriangleRing, HoleRing>>) }

GeoPoints == { Point(x, -x) : x \in (-MaxCoord) .. MaxCoord }

GeoGridSizes == { DefaultGridSize, 40 }

NoNumber == <<>>

\* The utilities' inputs: the geometries of a set, each with a grid size.
GeoInputs(geometries) ==
    [ stage : {"geometry"}, geometry : geometries, schema : {"unchecked"},
      thrown : {NoThrow}, gridSize : GeoGridSizes, centroid : {NoNumber},
      quantized : {NoNumber}, random : {NoNumber}, jittered : {NoNumber},
      requantized : {NoNumber}, key : {NoNumber} ]

GeoInit == geo \in GeoInputs(GeoPoints \cup GeoPolygons)

\* Geometries of every make: tags other than Point and Polygon, polygons
\* without rings or with an empty first ring, coordinates whose structure is
\* not the tag's, vertices of three numbers, and two sound ones.
ShapeGeometries ==
    { Geometry("LineString", "nested", <<Ring(TriangleRing)>>),
      Geometry("MultiPolygon", "nested", <<>>),
      Geometry("GeometryCollection", "nested", <<>>),
      Geometry("point", "numbers", <<Whole(49), Whole(-51)>>),
      Geometry("Polygon", "nested", <<>>),
      Geometry("Polygon", "nested", <<<<>>>>),
      Geometry("Polygon", "nested", <<<<>>, Ring(TriangleRing)>>),
      Geometry("Polygon", "numbers", <<Whole(49), Whole(-51)>>),
      Geometry("Polygon", "nested", <<<<<<Whole(1), Whole(2), Whole(3)>>>>>>),
      Geometry("Point", "nested", <<Ring(TriangleRing)>>),
      Geometry("Point", "nested", <<<<>>, <<>>>>),
      Geometry("Point", "numbers", <<Whole(1), Whole(2), Whole(3)>>),
      Point(49, -51),
      Polygon(<<SquareRing, HoleRing>>) }

ShapeInit == geo \in GeoInputs(ShapeGeometries)

\* createRatingSchema.parse, as far as the geometry goes.
GeoValidate ==
    /\ geo.stage = "geometry" /\ geo.schema = "unchecked"
    /\ geo' = [geo EXCEPT !.schema = IF ValidCreateGeometry(geo.geometry)
                                     THEN "accepted" ELSE "refused"]
    /\ UNCHANGED <<store, nextId, jitterLog, response, calls, limits>>

\* computeCentroid, called on a geometry the schema accepted (the route) or
\* on one it never saw (the seed script).
GeoCentroid ==
    /\ geo.stage = "geometry" /\ geo.schema # "refused"
    /\ geo' = IF computeCentroidThrows(geo.geometry) # NoThrow
              THEN [geo EXCEPT !.stage = "thrown",
                               !.thrown = computeCentroidThrows(geo.geometry)]
              ELSE [geo EXCEPT !.stage = "centroid",
                               !.centroid = computeCentroid(geo.geometry)]
    /\ UNCHANGED <<store, nextId, jitterLog, response, calls, limits>>

GeoQuantize ==
    /\ geo.stage = "centroid"
    /\ geo' = [geo EXCEPT !.stage = "quantized",
                          !.quantized =
                              quantizeCentroid(centroidNumbers(geo.geometry, geo.centroid),
                                               geo.gridSize)]
    /\ UNCHANGED <<store, nextId, jitterLog, response, calls, limits>>

\* The two draws are mirrored so that every value is drawn on each axis.
GeoJitter ==
    /\ geo.stage = "quantized"
    /\ \E r \in RandomValues :
          geo' = [geo EXCEPT
                    !.stage = "jittered",
                    !.random = <<r, RandomSteps - 1 - r>>,
                    !.jittered = <<addJitter(geo.quantized[1], DefaultMaxJitter, r),
                                   addJitter(geo.quantized[2], DefaultMaxJitter,
                                             RandomSteps - 1 - r)>>]
    /\ UNCHANGED <<store, nextId, jitterLog, response, calls, limits>>

GeoRequantize ==
    /\ geo.stage = "jittered"
    /\ LET quantized == quantizeCentroid(geo.jittered, geo.gridSize)
       IN  geo' = [geo EXCEPT !.stage = "requantized",
                              !.requantized = quantized,
                              !.key = cellKey(quantized)]
    /\ UNCHANGED <<store, nextId, jitterLog, response, calls, limits>>

-----------------------------------------------------------------------------
(* The requests of the specifications.                                      *)

Sessions == Users \cup {Missing}

Body(geometry, scores, note) == [geometry |-> geometry, scores |-> scores, note |-> note]

BboxParam(minLng, minLat, maxLng, maxLat) ==
    Join(<<NumberToString(Whole(minLng)), NumberToString(Whole(minLat)),
           NumberToString(Whole(maxLng)), NumberToString(Whole(maxLat))>>, ",")

\* A triangle whose vertex average (1.3, 0.25 thousandths of a degree) lies
\* off the grid, in the cell (0.001, 0).
FarTriangleRing == <<<<0, 0>>, <<520, 0>>, <<0, 100>>, <<0, 0>>>>

Submission(body, random) == [body |-> body, random |-> random]

\* Spec: the heatmap over a few documents.  Two submissions land in the cell
\* (0, 0) with opposite extreme jitters and different scores, one in the cell
\* (0.001, 0); every request is authenticated and well-formed, but for
\* the heatmap queries.
HeatInputs ==
    [ maxRatings  |-> MaxRatings,
      submitters  |-> {"alice"},
      sessions    |-> {"alice", "admin"},
      db          |-> {TRUE},
      allowed     |-> {TRUE},
      submissions |->
          { Submission(Body(Point(0, 0), Scores(6, 8, 10), Missing),
                       <<0, RandomSteps - 1>>),
            Submission(Body(Point(0, 0), Scores(2, 8, 3), Missing),
                       <<RandomSteps - 1, 0>>),
            Submission(Body(Polygon(<<FarTriangleRing>>), Scores(6, 8, 10), Missing),
                       <<0, RandomSteps - 1>>) },
      patches     |-> { [status |-> "approved"], [status |-> "rejected"] },
      bboxes      |-> { BboxParam(-50, -50, 150, 150), BboxParam(0, -50, 150, 150),
                        BboxParam(-50, -50, 0, 50), BboxParam(150, 150, -50, -50) },
      categories  |-> { Missing, "livability" },
      reasons     |-> { <<"s", "p", "a", "m">> },
      zooms       |-> { Null } ]

\* SpecIngest: single submissions followed through moderation.  Centroids on
\* and off the grid, jitters at both extremes and at zero, notes clean and
\* flagged, and the requests each handler rejects.
IngestInputs ==
    [ maxRatings  |-> MaxIngested,
      submitters  |-> {"alice", Missing},
      sessions    |-> Sessions,
      db          |-> BOOLEAN,
      allowed     |-> BOOLEAN,
      submissions |->
          { Submission(Body(Point(0, 0), Scores(6, 8, 10), Missing),
                       <<RandomSteps \div 2, RandomSteps \div 2>>),
            Submission(Body(Point(49, -51), Scores(6, 8, 10), "clean"),
                       <<0, RandomSteps - 1>>),
            Submission(Body(Point(49, -51), Scores(6, 8, 10), "profane"),
                       <<RandomSteps - 1, 0>>),
            Submission(Body(Polygon(<<FarTriangleRing>>), Scores(0, 0, 0), Missing),
                       <<0, RandomSteps - 1>>),
            Submission(Body(Polygon(<<SquareRing, HoleRing>>), Scores(6, 8, 10), Missing),
                       <<RandomSteps - 1, RandomSteps \div 2>>),
            Submission(Body(Point(0, 0), Scores(11, 8, 10), Missing),
                       <<0, 0>>),
            Submission(Body(Geometry("Polygon", "nested", <<<<>>>>),
                            Scores(6, 8, 10), Missing),
                       <<0, 0>>),
            Submission(Body(Geometry("Polygon", "numbers", <<Whole(1), Whole(2)>>),
                            Scores(6, 8, 10), Missing),
                       <<0, 0>>),
            Submission(Body(Geometry("LineString", "nested", <<>>),
                            Scores(6, 8, 10), Missing),
                       <<0, 0>>) },
      patches     |-> { [status |-> "approved"], [status |-> "rejected"],
                        [status |-> "pending"],
                        [scores |-> Scores(1, 3, 5)], [scores |-> Scores(0, 3, 5)],
                        [scores |-> Scores(1, 3, 5), status |-> "approved"] },
      bboxes      |-> { Null, BboxParam(-50, -150, 150, 150),
                        <<"1", ",", "2", ",", "x", ",", "4">> },
      categories  |-> { Missing, "livability", "bogus" },
      reasons     |-> { <<>>, <<"s", "p", "a", "m">> },
      zooms       |-> { Null } ]

\* SpecMean: up to MaxScored documents in the one cell (0, 0), their safety
\* scores 6, 8 and 10, their amenities scores all 10 and their livability
\* scores all 0; the owner's update brings the scores to (1, 3, 5).  The
\* flags sent carry no reason, which flagRatingSchema refuses.
MeanInputs ==
    [ maxRatings  |-> MaxScored,
      submitters  |-> {"alice"},
      sessions    |-> {"alice"},
      db          |-> {TRUE},
      allowed     |-> {TRUE},
      submissions |->
          { Submission(Body(Point(0, 0), Scores(6, 10, 0), Missing),
                       <<0, RandomSteps - 1>>),
            Submission(Body(Point(20, -20), Scores(8, 10, 0), Missing),
                       <<RandomSteps \div 2, RandomSteps \div 2>>),
            Submission(Body(Point(-49, 49), Scores(10, 10, 0), Missing),
                       <<RandomSteps - 1, 0>>) },
      patches     |-> { [scores |-> Scores(1, 3, 5)] },
      bboxes      |-> { BboxParam(-50, -50, 150, 150) },
      categories  |-> { Missing, "amenities", "livability" },
      reasons     |-> { <<>> },
      zooms       |-> { Null } ]

\* SpecConcurrent: heatmap requests followed step by step while documents of
\* the cell (0, 0) are created, flagged and deleted (the owner's update
\* carries a score of 0, which updateRatingSchema refuses).
ConcurrentInputs ==
    [ maxRatings  |-> MaxWritten,
      maxCalls    |-> MaxCalls,
      submitters  |-> {"alice"},
      sessions    |-> {"alice"},
      db          |-> BOOLEAN,
      allowed     |-> {TRUE},
      submissions |->
          { Submission(Body(Point(0, 0), Scores(6, 8, 10), Missing),
                       <<0, RandomSteps - 1>>) },
      patches     |-> { [scores |-> Scores(0, 3, 5)] },
      bboxes      |-> { BboxParam(-50, -50, 150, 150), BboxParam(150, 150, -50, -50) },
      categories  |-> { Missing },
      reasons     |-> { <<"s", "p", "a", "m">> },
      zooms       |-> { Null } ]

\* A bbox parameter given as its comma-separated pieces.
BboxText(pieces) == Join(pieces, ",")

\* SpecQuery: the heatmap's parameters.  Boxes absent, empty, sound (with and
\* without records in them), inverted, out of range, with a piece that is
\* empty, missing, no number or one too many; categories absent, empty, named
\* and unknown; zooms absent, within 0 .. 22, beyond it and not numeric.
QueryInputs ==
    [ maxRatings  |-> MaxQueried,
      submitters  |-> {"alice"},
      sessions    |-> {"admin"},
      db          |-> BOOLEAN,
      allowed     |-> {TRUE},
      submissions |->
          { Submission(Body(Point(0, 0), Scores(6, 8, 10), Missing),
                       <<RandomSteps \div 2, RandomSteps \div 2>>) },
      patches     |-> { [status |-> "approved"] },
      bboxes      |->
          { Null, <<>>,
            BboxParam(-50, -50, 150, 150),
            BboxParam(500, 500, 600, 600),
            BboxParam(10 * UnitsPerDegree, 10 * UnitsPerDegree,
                      5 * UnitsPerDegree, 5 * UnitsPerDegree),
            BboxParam(-50, -50, 181 * UnitsPerDegree, 150),
            BboxText(<<<<"-", "5", "0">>, <<>>, <<"1", "5", "0">>, <<"1", "5", "0">>>>),
            BboxText(<<<<"-", "5", "0">>, <<"-", "5", "0">>, <<"1", "5", "0">>>>),
            BboxText(<<<<"1">>, <<"2">>, <<"x">>, <<"4">>>>),
            BboxText(<<<<"1">>, <<"2">>, <<"3">>, <<"4">>, <<"5">>>>) },
      categories  |-> { Missing, "", "amenities", "bogus" },
      reasons     |-> { <<"s", "p", "a", "m">> },
      zooms       |-> { Null, <<"5">>, <<"2", "3">>, <<"a", "b", "c">> } ]

\* SpecDaily: one user's submissions through route.ts and its limiter, at the
\* start of a day, an hour later, at the end of the limiter's window (24
\* hours), a minute after it and at the next hour.
DailyInputs ==
    [ maxRatings  |-> MaxDailyChecks,
      maxChecks   |-> MaxDailyChecks,
      submitters  |-> {"alice"},
      db          |-> {TRUE},
      submissions |->
          { Submission(Body(Point(0, 0), Scores(6, 8, 10), Missing),
                       <<RandomSteps \div 2, RandomSteps \div 2>>) },
      instants    |-> { 60, DayWindow, DayWindow + 1, DayWindow + 60 } ]

\* SpecSliding: one user's submissions through part_012 and its limiter, at
\* the start of a day, 65 minutes later (past the age at which the clean-up
\* drops a request), after 12 hours and after 24 hours (the end of the window
\* of the first requests).  The bodies carry no note.
SlidingInputs ==
    [ maxRatings  |-> MaxSlidingChecks,
      maxChecks   |-> MaxSlidingChecks,
      submitters  |-> {"alice"},
      db          |-> {TRUE},
      submissions |->
          { Submission(Body(Point(0, 0), Scores(6, 8, 10), Null),
                       <<RandomSteps \div 2, RandomSteps \div 2>>) },
      instants    |-> { CleanupAge + CleanupEvery, DayWindow \div 2, DayWindow } ]

\* SpecReject: submissions through both versions of the handler, with and
\* without a session, with the database up and down, with a body the schema
\* accepts and one it refuses (a score of 11), until a limiter refuses.
RejectInputs ==
    [ maxRatings  |-> MaxRejectChecks,
      maxChecks   |-> MaxRejectChecks,
      submitters  |-> {"alice", Missing},
      db          |-> BOOLEAN,
      submissions |->
          { Submission(Body(Point(0, 0), Scores(6, 8, 10), Missing),
                       <<RandomSteps \div 2, RandomSteps \div 2>>),
            Submission(Body(Point(0, 0), Scores(11, 8, 10), Missing),
                       <<RandomSteps \div 2, RandomSteps \div 2>>) } ]

\* The same requests with the notes as part_012 reads them: texts.
RejectTextInputs ==
    [ RejectInputs EXCEPT
        !.submissions =
          { Submission(Body(Point(0, 0), Scores(6, 8, 10), Null),
                       <<RandomSteps \div 2, RandomSteps \div 2>>),
            Submission(Body(Point(0, 0), Scores(11, 8, 10), Null),
                       <<RandomSteps \div 2, RandomSteps \div 2>>) } ]

\* SpecNotes: submissions through part_012 whose notes are absent, clean
\* ("nice"), matched by one pattern of the filter ("damn", "Damn  place") or
\* by two ("shit").
NoteInputs ==
    [ maxRatings  |-> MaxNoted,
      maxChecks   |-> MaxNoted,
      submitters  |-> {"alice"},
      db          |-> {TRUE},
      submissions |->
          { Submission(Body(Point(0, 0), Scores(6, 8, 10), note),
                       <<RandomSteps \div 2, RandomSteps \div 2>>) :
              note \in { Null,
                         <<"n", "i", "c", "e">>,
                         <<"d", "a", "m", "n">>,
                         <<"D", "a", "m", "n", " ", " ", "p", "l", "a", "c", "e">>,
                         <<"s", "h", "i", "t">> } } ]

\* SpecAuth: sign-in attempts for the one account, its address written as
\* stored, in capitals with a space before it, and without its top-level
\* domain; with the right password, a wrong one and none; at the start and
\* 15 minutes later (the end of the limiter's window).
AuthInputs ==
    [ maxChecks   |-> MaxAuthChecks,
      emails      |-> { <<>>,
                        Account,
                        <<" ", "A", "@", "B", ".", "I", "O">>,
                        <<"a", "@", "b">> },
      passwords   |-> { "", "guess", AccountPassword },
      db          |-> {TRUE},
      instants    |-> { RATE_LIMITS.AUTH_ATTEMPTS.windowMs } ]

-----------------------------------------------------------------------------

SysInit ==
    /\ store = <<>>
    /\ nextId = 1
    /\ jitterLog = <<>>
    /\ response = NoResponse
    /\ calls = <<>>
    /\ now = 0
    /\ rateLimitStore = <<>>
    /\ rateLimiter = <<>>
    /\ checks = <<>>
    /\ lastIndex = FreshIndex

GeoIdle == [ stage |-> "idle", geometry |-> NoNumber, schema |-> "unchecked",
             thrown |-> NoThrow, gridSize |-> DefaultGridSize,
             centroid |-> NoNumber, quantized |-> NoNumber, random |-> NoNumber,
             jittered |-> NoNumber, requantized |-> NoNumber, key |-> NoNumber ]

InitGeo == GeoInit /\ SysInit

NextGeo == GeoValidate \/ GeoCentroid \/ GeoQuantize \/ GeoJitter \/ GeoRequantize

SpecGeo == InitGeo /\ [][NextGeo]_vars

InitShape == ShapeInit /\ SysInit

SpecShape == InitShape /\ [][NextGeo]_vars

Init == geo = GeoIdle /\ SysInit

Next ==
    \/ POST_ratings(HeatInputs)
    \/ PATCH_rating(HeatInputs)
    \/ DELETE_rating(HeatInputs)
    \/ POST_flag(HeatInputs)
    \/ GET_heatmap(HeatInputs)

Spec == Init /\ [][Next]_vars

NextIngest ==
    \/ POST_ratings(IngestInputs)
    \/ PATCH_rating(IngestInputs)
    \/ DELETE_rating(IngestInputs)
    \/ POST_flag(IngestInputs)
    \/ GET_heatmap(IngestInputs)

SpecIngest == Init /\ [][NextIngest]_vars

NextQuery ==
    \/ POST_ratings(QueryInputs)
    \/ PATCH_rating(QueryInputs)
    \/ DELETE_rating(QueryInputs)
    \/ POST_flag(QueryInputs)
    \/ GET_heatmap(QueryInputs)

SpecQuery == Init /\ [][NextQuery]_vars

NextConcurrent ==
    \/ POST_ratings(ConcurrentInputs)
    \/ PATCH_rating(ConcurrentInputs)
    \/ DELETE_rating(ConcurrentInputs)
    \/ POST_flag(ConcurrentInputs)
    \/ HeatStart(ConcurrentInputs)
    \/ HeatFind(ConcurrentInputs)
    \/ HeatAggregate

SpecConcurrent == Init /\ [][NextConcurrent]_vars

NextDaily ==
    \/ POST_ratings_checkRateLimit(DailyInputs)
    \/ Tick(DailyInputs)
    \/ RateLimitCleanup

SpecDaily == Init /\ [][NextDaily]_vars

NextSliding ==
    \/ POST_ratings_enhanced(SlidingInputs)
    \/ Tick(SlidingInputs)
    \/ Cleanup

SpecSliding == Init /\ [][NextSliding]_vars

NextReject ==
    \/ POST_ratings_checkRateLimit(RejectInputs)
    \/ POST_ratings_enhanced(RejectTextInputs)

SpecReject == Init /\ [][NextReject]_vars

NextNotes == POST_ratings_enhanced(NoteInputs)

SpecNotes == Init /\ [][NextNotes]_vars

NextAuth ==
    \/ authorize(AuthInputs)
    \/ Tick(AuthInputs)
    \/ Cleanup

SpecAuth == Init /\ [][NextAuth]_vars

NextMean ==
    \/ POST_ratings(MeanInputs)
    \/ PATCH_rating(MeanInputs)
    \/ DELETE_rating(MeanInputs)
    \/ POST_flag(MeanInputs)
    \/ GET_heatmap(MeanInputs)

SpecMean == Init /\ [][NextMean]_vars

-----------------------------------------------------------------------------
(* Claims about the geometry utilities, checked under SpecGeo.             *)

AxisSet == {1, 2}

\* C1: with the default grid (0.001) and the default jitter bound (0.0003),
\* quantizing a jittered quantized coordinate gives the quantized coordinate
\* back, on both axes and for every value Math.random() can return: the
\* jitter never moves a point out of its write-time grid cell, so the heatmap
\* handler's cell key for it is the key of its write-time cell.
C1_JitterStaysInCell ==
    (geo.stage = "requantized" /\ geo.gridSize = DefaultGridSize)
        => /\ geo.requantized = geo.quantized
           /\ geo.key = cellKey(geo.quantized)
           /\ MapNumber(Split(geo.key, ",")) = geo.quantized

\* A jitter of the largest magnitude was applied to a centroid off the grid.
C1_Witness ==
    /\ geo.stage = "requantized"
    /\ geo.gridSize = DefaultGridSize
    /\ geo.random[1] = 0
    /\ geo.centroid # geo.quantized
    /\ geo.jittered[1] = NumSub(geo.quantized[1], Whole(DefaultMaxJitter))
    /\ geo.requantized = geo.quantized

\* C4: quantization is idempotent: quantizeCentroid applied to a quantized
\* centroid returns it unchanged, on both axes.
C4_QuantizeIdempotent ==
    geo.stage = "quantized"
        => quantizeCentroid(geo.quantized, geo.gridSize) = geo.quantized

\* A centroid off the grid was quantized with the default grid size.
C4_Witness ==
    /\ geo.stage = "quantized"
    /\ geo.gridSize = DefaultGridSize
    /\ geo.quantized[1] # geo.centroid[1]
    /\ geo.quantized[2] # geo.centroid[2]
    /\ geo.quantized[1] # Whole(0)

JitterBounds == { DefaultMaxJitter, 10, 45 }

\* C5: jitter is bounded: the value addJitter returns differs from its input
\* by at most maxJitter, for every value Math.random() can return; checked on
\* the jittered coordinates (default bound) and on other bounds.
C5_JitterBounded ==
    geo.stage = "jittered" =>
        \A a \in AxisSet :
            /\ NumLe(NumAbs(NumSub(geo.jittered[a], geo.quantized[a])),
                     Whole(DefaultMaxJitter))
            /\ \A m \in JitterBounds :
                  NumLe(NumAbs(NumSub(addJitter(geo.quantized[a], m, geo.random[a]),
                                      geo.quantized[a])),
                        Whole(m))

\* The smallest random value was drawn: the offset is exactly -maxJitter.
C5_Witness ==
    /\ geo.stage = "jittered"
    /\ geo.random = <<0, RandomSteps - 1>>
    /\ NumSub(geo.jittered[1], geo.quantized[1]) = Whole(-DefaultMaxJitter)
    /\ NumSub(geo.jittered[2], geo.quantized[2]) = Whole(DefaultMaxJitter - 1)

\* C6: quantizeCoordinate returns, on each axis independently, a multiple of
\* the grid size at distance at most half a grid size from its input; with
\* the grid size 0.001, 0.00049 quantizes to 0.0 and 0.00051 to 0.001.
C6_QuantizeNearestMultiple ==
    geo.stage = "quantized" =>
        /\ \A a \in AxisSet :
              /\ geo.quantized[a][2] = 1
              /\ geo.quantized[a][1] % geo.gridSize = 0
              /\ NumLe(NumMul(Whole(2),
                              NumAbs(NumSub(geo.quantized[a], geo.centroid[a]))),
                       Whole(geo.gridSize))
              /\ geo.quantized[a] = quantizeCoordinate(geo.centroid[a], geo.gridSize)
        /\ (geo.gridSize = DefaultGridSize /\ geo.centroid[1] = Whole(49))
              => geo.quantized[1] = Whole(0)
        /\ (geo.gridSize = DefaultGridSize /\ geo.centroid[1] = Whole(51))
              => geo.quantized[1] = Whole(DefaultGridSize)

\* 0.00051 was quantized with the default grid size (the other axis, -0.00051,
\* goes to -0.001).
C6_Witness ==
    /\ geo.stage = "quantized"
    /\ geo.gridSize = DefaultGridSize
    /\ geo.centroid = <<Whole(51), Whole(-51)>>
    /\ geo.quantized = <<Whole(DefaultGridSize), Whole(-DefaultGridSize)>>

FirstRingOnly(geometry) ==
    [geometry EXCEPT !.coordinates = <<geometry.coordinates[1]>>]

\* C7: computeCentroid returns a Point's coordinates unchanged and, for a
\* Polygon, the arithmetic mean of all vertices of the first ring, the
\* duplicated closing vertex included: the square [[0,0],[0,2],[2,2],[2,0],
\* [0,0]] yields [0.8, 0.8], not [1, 1]; inner rings do not influence it.
C7_CentroidDefinition ==
    geo.stage = "centroid" =>
        /\ geo.geometry.type = "Point" => geo.centroid = geo.geometry.coordinates
        /\ geo.geometry.type = "Polygon" =>
              LET ring == geo.geometry.coordinates[1]
              IN  /\ \A a \in AxisSet :
                        NumMul(geo.centroid[a], Whole(Len(ring))) = SumAxis(ring, a, 1)
                  /\ geo.centroid = computeCentroid(FirstRingOnly(geo.geometry))
        /\ (geo.geometry.type = "Polygon"
              /\ geo.geometry.coordinates[1] = Ring(SquareRing))
              => /\ geo.centroid = <<Num(8 * UnitsPerDegree, 10), Num(8 * UnitsPerDegree, 10)>>
                 /\ geo.centroid # <<Whole(UnitsPerDegree), Whole(UnitsPerDegree)>>

\* The centroid of the square with an inner ring was computed.
C7_Witness ==
    /\ geo.stage = "centroid"
    /\ geo.geometry = Polygon(<<SquareRing, HoleRing>>)
    /\ geo.centroid = <<Whole(80000), Whole(80000)>>

-----------------------------------------------------------------------------
(* Claims about the submission path, checked under SpecIngest.              *)

\* The multiples of the grid size on either side of a number.
NeighbourMultiples(c, gridSize) ==
    LET below == NumMul(MathFloor(NumDiv(c, Whole(gridSize))), Whole(gridSize))
    IN  { below, NumAdd(below, Whole(gridSize)) }

\* On each axis the stored centroid is within maxJitter of the multiple of the
\* grid size nearest to the geometry's centroid, and it is addJitter's result
\* for the quantized centroid.
StoredCentroidTransformed(id) ==
    LET raw == computeCentroid(store[id].geometry)
        stored == store[id].centroid.coordinates
    IN  \A a \in AxisSet :
            /\ \E m \in NeighbourMultiples(raw[a], DefaultGridSize) :
                  /\ NumLe(NumMul(Whole(2), NumAbs(NumSub(raw[a], m))),
                           Whole(DefaultGridSize))
                  /\ NumLe(NumAbs(NumSub(stored[a], m)), Whole(DefaultMaxJitter))
            /\ stored[a] = addJitter(quantizeCoordinate(raw[a], DefaultGridSize),
                                     DefaultMaxJitter, jitterLog[id][a].random)

JitteredOncePerAxis(id) ==
    /\ Len(jitterLog[id]) = 2
    /\ \A a \in AxisSet :
          /\ jitterLog[id][a].coord =
                quantizeCentroid(computeCentroid(store[id].geometry), DefaultGridSize)[a]
          /\ jitterLog[id][a].result = store[id].centroid.coordinates[a]

\* No step adds an invocation for, or changes the centroid of, a document
\* that exists before and after it.
CentroidKept ==
    \A id \in DOMAIN store \cap DOMAIN store' :
        /\ store'[id].centroid = store[id].centroid
        /\ jitterLog'[id] = jitterLog[id]

\* C3: for every stored rating addJitter was invoked exactly once per axis and
\* the stored centroid is the result of those two invocations; no later
\* operation (status PATCH, owner PATCH, flag, heatmap) invokes it again or
\* recomputes the stored centroid.
C3_JitterOncePerSubmission ==
    /\ [](DOMAIN jitterLog = DOMAIN store /\ \A id \in DOMAIN store : JitteredOncePerAxis(id))
    /\ [][CentroidKept]_vars

\* A document that was created approved, then updated by its owner and
\* flagged, and a heatmap query answered after that.
C3_Witness ==
    /\ response.op = "GET /api/heatmap" /\ response.status = 200
    /\ \E id \in DOMAIN store :
          /\ store[id].scores = Scores(1, 3, 5)
          /\ store[id].note = "clean"
          /\ store[id].status = "pending"
          /\ JitteredOncePerAxis(id)

-----------------------------------------------------------------------------
(* Claims about the heatmap, checked under Spec.  Every handler replaces    *)
(* response, so a heatmap response is always about the current store.       *)

HeatAnswered == response.op = "GET /api/heatmap" /\ response.status = 200

\* The document's stored centroid lies in the box (west, south, east, north).
InBox(id, bbox) ==
    LET c == store[id].centroid.coordinates
    IN  /\ NumLe(bbox[1], c[1]) /\ NumLe(c[1], bbox[3])
        /\ NumLe(bbox[2], c[2]) /\ NumLe(c[2], bbox[4])

CellOf(id) == quantizeCentroid(store[id].centroid.coordinates, DefaultGridSize)

Approved == { id \in DOMAIN store : store[id].status = "approved" }

\* The approved documents of a cell that lie in a box.
MembersIn(cell, bbox) == { id \in Approved : InBox(id, bbox) /\ CellOf(id) = cell }

RECURSIVE TotalScore(_, _)
TotalScore(ids, category) ==
    IF ids = {} THEN Whole(0)
    ELSE LET id == CHOOSE i \in ids : TRUE
         IN  NumAdd(store[id].scores[category], TotalScore(ids \ {id}, category))

\* The mean of a set's category scores, rounded to one decimal place.
RoundedMean(ids, category) ==
    NumDiv(MathRound(NumDiv(NumMul(Whole(10), TotalScore(ids, category)),
                            Whole(Cardinality(ids)))),
           Whole(10))

FeatureSet(features) == { features[i] : i \in 1 .. Len(features) }

\* The boxes a query can name, parsed.
QueryBoxes ==
    { parseBbox(b) : b \in { p \in HeatInputs.bboxes : p # Null /\ isValidBbox(parseBbox(p)) } }

\* C8 as stated: for a fixed store and category, the count and averageScore
\* reported for a cell are the same in every bounding-box query that emits
\* that cell.
C8_AsStated ==
    HeatAnswered =>
        \A f \in FeatureSet(response.features), bbox \in QueryBoxes :
            \A g \in FeatureSet(HeatFeatures(store, bbox, response.category)) :
                g.coordinates = f.coordinates
                    => g.count = f.count /\ g.averageScore = f.averageScore

\* C8 as amended: the feature emitted for a cell aggregates the approved
\* records whose persisted centroid lies within the queried box and quantizes
\* to that cell (count is their number, averageScore their rounded category
\* mean); two queries that emit the cell agree on it whenever the same records
\* of the cell lie within both boxes.
C8_CellAggregatesRecordsInBox ==
    HeatAnswered =>
        \A f \in FeatureSet(response.features) :
            LET members == MembersIn(f.coordinates, response.bbox)
            IN  /\ f.count = Cardinality(members)
                /\ f.averageScore = RoundedMean(members, response.category)
                /\ \A bbox \in QueryBoxes :
                      \A g \in FeatureSet(HeatFeatures(store, bbox, response.category)) :
                          (g.coordinates = f.coordinates
                             /\ MembersIn(f.coordinates, bbox) = members)
                              => g.count = f.count /\ g.averageScore = f.averageScore

\* A cell was emitted with one of its two approved records left out, the
\* other one's jittered centroid lying outside the box.
C8_Witness ==
    /\ HeatAnswered
    /\ \E f \in FeatureSet(response.features) :
          /\ f.count = 1
          /\ Cardinality({ id \in Approved : CellOf(id) = f.coordinates }) = 2

\* C9: a rating record contributes to the heatmap output (the output would
\* differ without it) if and only if its status is approved and its persisted
\* centroid lies within the requested bounding box; pending and rejected
\* records, a flagged one included, do not contribute.
C9_ContributesIffApprovedInBox ==
    HeatAnswered =>
        \A id \in DOMAIN store :
            (HeatFeatures(Remove(store, id), response.bbox, response.category)
                # response.features)
            <=> (store[id].status = "approved" /\ InBox(id, response.bbox))

\* A query answered with an approved record counted and, in the same cell and
\* box, a record that was created approved and then flagged left out.
C9_Witness ==
    /\ HeatAnswered
    /\ \E a, b \in DOMAIN store :
          /\ store[a].status = "approved" /\ store[b].status = "pending"
          /\ store[b].note = Missing
          /\ InBox(a, response.bbox) /\ InBox(b, response.bbox)
          /\ CellOf(a) = CellOf(b)
          /\ \E i \in 1 .. Len(response.features) :
                /\ response.features[i].coordinates = CellOf(a)
                /\ response.features[i].count = 1

RECURSIVE SumCounts(_, _)
SumCounts(features, i) ==
    IF i > Len(features) THEN 0 ELSE features[i].count + SumCounts(features, i + 1)

\* The documents the query retrieves.
Retrieved == { id \in Approved : InBox(id, response.bbox) }

\* C10: the handler emits exactly one feature per distinct quantized cell
\* among the retrieved records: feature coordinates are pairwise distinct,
\* every retrieved record is counted in exactly one feature (the one at its
\* re-quantized centroid), each count is the number of the feature's members,
\* and the counts sum to the number of retrieved records.
C10_OneFeaturePerCell ==
    HeatAnswered =>
        LET features == response.features
        IN  /\ \A i, j \in 1 .. Len(features) :
                  features[i].coordinates = features[j].coordinates => i = j
            /\ Len(features) = Cardinality({ CellOf(id) : id \in Retrieved })
            /\ \A id \in Retrieved :
                  Cardinality({ i \in 1 .. Len(features) :
                                  features[i].coordinates = CellOf(id) }) = 1
            /\ \A i \in 1 .. Len(features) :
                  features[i].count =
                      Cardinality({ id \in Retrieved : CellOf(id) = features[i].coordinates })
            /\ SumCounts(features, 1) = Cardinality(Retrieved)

\* Two retrieved records in two cells gave two features.
C10_Witness ==
    /\ HeatAnswered
    /\ Len(response.features) = 2
    /\ Cardinality(Retrieved) = 2
    /\ response.features[1].coordinates # response.features[2].coordinates

-----------------------------------------------------------------------------
(* Claims about the aggregates, checked under SpecMean.                     *)

\* The requested category's scores of a set of documents.
CategoryScores(ids, category) == { store[id].scores[category] : id \in ids }

\* C11: for each group, averageScore is the arithmetic mean of the requested
\* category's scores of the group's members, no other category and no
\* weighting entering, rounded to one decimal place (a whole number of tenths
\* at most half a tenth from the mean), and weight is the unrounded mean
\* divided by 10; three ratings in one cell with category scores 6, 8 and 10
\* aggregate to one feature with count 3, averageScore 8.0 and weight 0.8.
C11_MeanOfCategoryScores ==
    HeatAnswered =>
        \A f \in FeatureSet(response.features) :
            LET members == MembersIn(f.coordinates, response.bbox)
                total == TotalScore(members, response.category)
                n == Cardinality(members)
                tenths == NumMul(f.averageScore, Whole(10))
            IN  /\ n > 0
                /\ NumMul(f.weight, Whole(10 * n)) = total
                /\ tenths[2] = 1
                /\ NumLe(NumMul(Whole(2 * n),
                                NumAbs(NumSub(tenths, NumDiv(NumMul(Whole(10), total),
                                                             Whole(n))))),
                         Whole(n))
                /\ (n = 3 /\ CategoryScores(members, response.category)
                                = {Whole(6), Whole(8), Whole(10)})
                      => /\ Len(response.features) = 1
                         /\ f.count = 3
                         /\ f.averageScore = Whole(8)
                         /\ f.weight = Num(8, 10)

\* Three approved ratings of one cell with safety scores 6, 8 and 10 were
\* aggregated by safety into one feature.
C11_Witness ==
    /\ HeatAnswered
    /\ response.category = "safety"
    /\ Cardinality(Approved) = 3
    /\ CategoryScores(Approved, "safety") = {Whole(6), Whole(8), Whole(10)}
    /\ Len(response.features) = 1
    /\ response.features[1].count = 3
    /\ response.features[1].averageScore = Whole(8)
    /\ response.features[1].weight = Num(4, 5)

-----------------------------------------------------------------------------
(* Claims checked under SpecIngest: scores and weights.                     *)

\* The heatmap answered a query of SpecIngest's.
IngestAnswered == response.op = "GET /api/heatmap" /\ response.status = 200

\* C12: after any sequence of rating creations, owner score updates, status
\* updates and flags, every stored category score is within [0, 10] and every
\* feature the heatmap handler emits has 0 <= weight <= 1, its weight being
\* exactly 1 when the group's mean is 10 and exactly 0 when it is 0.
C12_WeightWithinUnit ==
    /\ \A id \in DOMAIN store, c \in Categories :
          NumLe(Whole(0), store[id].scores[c]) /\ NumLe(store[id].scores[c], Whole(10))
    /\ IngestAnswered =>
          \A f \in FeatureSet(response.features) :
              LET members == MembersIn(f.coordinates, response.bbox)
                  total == TotalScore(members, response.category)
                  n == Cardinality(members)
              IN  /\ NumLe(Whole(0), f.weight) /\ NumLe(f.weight, Whole(1))
                  /\ total = Whole(10 * n) => f.weight = Whole(1)
                  /\ total = Whole(0) => f.weight = Whole(0)

\* A group whose livability mean is 10 was emitted with weight 1.
C12_Witness ==
    /\ IngestAnswered
    /\ response.category = "livability"
    /\ Len(response.features) = 1
    /\ response.features[1].weight = Whole(1)
    /\ \E id \in Approved : store[id].scores.livability = Whole(10)

-----------------------------------------------------------------------------
(* Claims about the heatmap's parameters, checked under SpecQuery.          *)

HeatResponded == response.op = "GET /api/heatmap"

\* The response is an error: no storage query was made for it and it holds
\* no feature list.
HeatRejected ==
    /\ response.status \in {400, 500}
    /\ "found" \notin DOMAIN response
    /\ "features" \notin DOMAIN response

\* A decimal numeral of a whole number of units.
IsNumeral(s) == AllDigits(s) \/ (s # <<>> /\ Head(s) = "-" /\ AllDigits(Tail(s)))

\* The parameter is four numerals, west below east, south below north,
\* longitudes within [-180, 180] and latitudes within [-90, 90] degrees.
BboxWellFormed(bboxParam) ==
    LET pieces == Split(bboxParam, ",")
    IN  /\ Len(pieces) = 4
        /\ \A i \in 1 .. 4 : IsNumeral(pieces[i])
        /\ LET v == [i \in 1 .. 4 |-> StringToNumber(pieces[i])[1]]
           IN  /\ v[1] < v[3] /\ v[2] < v[4]
               /\ -180 * UnitsPerDegree <= v[1] /\ v[3] <= 180 * UnitsPerDegree
               /\ -90 * UnitsPerDegree <= v[2] /\ v[4] <= 90 * UnitsPerDegree

\* C13: the heatmap handler rejects a bbox with an error, making no storage
\* query and returning no feature list, unless the bbox consists of exactly
\* four finite numbers with minLng < maxLng, minLat < maxLat, longitudes
\* within [-180, 180] and latitudes within [-90, 90]; the inverted box
\* (10, 10, 5, 5) is rejected, and a bbox string with a missing or empty
\* component is rejected rather than read as 0.
C13_AsStated ==
    HeatResponded =>
        (~BboxWellFormed(response.request.bbox) => HeatRejected)

\* C14 as stated: the heatmap handler fails with an invalid-category error,
\* running no storage query, whenever the supplied category is not one of
\* safety, amenities, livability, and it never aggregates under a category
\* the caller did not name.
C14_AsStated ==
    HeatResponded =>
        /\ (response.request.category # Missing
               /\ response.request.category \notin Categories) => HeatRejected
        /\ response.status = 200 => response.category = response.request.category

\* C14 as amended: the heatmap handler fails with a 400 error, running no
\* storage query, whenever the supplied category is non-empty and not one of
\* safety, amenities, livability; an absent or empty category is read as
\* safety; a successful response aggregates under the category named, or
\* under safety when none was named, and under no other.
C14_UnknownCategoryRejected ==
    HeatResponded =>
        /\ response.request.category \notin (Categories \cup {Missing, ""})
              => (HeatRejected /\ response.status = 400)
        /\ response.status = 200 =>
              /\ response.category \in Categories
              /\ response.category =
                    IF response.request.category \in {Missing, ""}
                    THEN "safety" ELSE response.request.category
              /\ \A f \in FeatureSet(response.features) :
                    f.averageScore =
                        RoundedMean(MembersIn(f.coordinates, response.bbox),
                                    response.category)

\* A query naming an unknown category, sound otherwise, was refused while an
\* approved record lay in its box.
C14_Witness ==
    /\ HeatResponded
    /\ response.request = [bbox |-> BboxParam(-50, -50, 150, 150),
                           category |-> "bogus", zoom |-> Null]
    /\ response.status = 400
    /\ response.error = "Invalid query parameters"
    /\ \E id \in Approved : InBox(id, parseBbox(response.request.bbox))

\* The handler takes the zoom: it is absent or empty (read as 10) or its
\* leading integer is within 0 .. 22.
ZoomAccepted(zoomParam) ==
    \/ zoomParam = Null
    \/ zoomParam = <<>>
    \/ /\ LeadingDigits(zoomParam) # <<>>
       /\ DigitsToNat(LeadingDigits(zoomParam), 0) <= 22

MatchingIn(bboxParam) == { id \in Approved : InBox(id, parseBbox(bboxParam)) }

\* The request passes the validation the claim describes; an absent or
\* empty category counts as valid (it is read as safety).
RequestValid(request) ==
    /\ BboxWellFormed(request.bbox)
    /\ request.category \in (Categories \cup {Missing, ""})
    /\ ZoomAccepted(request.zoom)

\* C16: the heatmap handler returns an empty feature collection as a success
\* exactly when validation passed and the storage query succeeded with zero
\* matching records; an invalid bbox, an invalid category and a storage
\* failure each end in an error response and are never reported as an empty
\* feature list.
C16_AsStated ==
    HeatResponded =>
        /\ (response.status = 200 /\ response.features = <<>>)
              => (RequestValid(response.request)
                    /\ MatchingIn(response.request.bbox) = {})
        /\ (RequestValid(response.request) /\ response.status # 500
               /\ MatchingIn(response.request.bbox) = {})
              => (response.status = 200 /\ response.features = <<>>)
        /\ ~RequestValid(response.request) => HeatRejected
        /\ response.status = 500 => HeatRejected

-----------------------------------------------------------------------------
(* Claims about geometries of every make, checked under SpecShape.          *)

\* computeCentroid was called and has returned or thrown.
CentroidCalled == geo.stage \notin {"idle", "geometry"}

\* C17: computeCentroid fails with an unsupported-geometry error for every
\* geometry whose type tag is neither Point nor Polygon, and returns no
\* coordinate in that case; it fails so for no Point and no Polygon.
C17_UnsupportedGeometryThrows ==
    CentroidCalled =>
        /\ geo.geometry.type \notin {"Point", "Polygon"}
              => /\ geo.stage = "thrown"
                 /\ geo.thrown = "Unsupported geometry type"
                 /\ geo.centroid = NoNumber
        /\ geo.thrown = "Unsupported geometry type"
              => geo.geometry.type \notin {"Point", "Polygon"}

\* computeCentroid was called on a LineString and threw.
C17_Witness ==
    /\ geo.stage = "thrown"
    /\ geo.geometry.type = "LineString"
    /\ geo.thrown = "Unsupported geometry type"
    /\ geo.centroid = NoNumber

\* A Polygon whose first ring is empty or absent.
NoFirstRing(geometry) ==
    /\ geometry.type = "Polygon" /\ geometry.kind = "nested"
    /\ (Len(geometry.coordinates) = 0 \/ geometry.coordinates[1] = <<>>)

\* C18: a Polygon whose first ring is empty (or absent) makes the transformer
\* fail fast with an error: computeCentroid, called on it, throws and never
\* returns a NaN or infinite coordinate for it, so that no non-finite
\* centroid goes on to be quantized, jittered and handed to storage.
C18_AsStated ==
    (NoFirstRing(geo.geometry) /\ CentroidCalled) =>
        /\ geo.stage = "thrown"
        /\ geo.centroid = NoNumber
        /\ geo.jittered = NoNumber

\* The coordinates have the structure the type tag requires.
StructureOfTag(geometry) ==
    /\ geometry.type = "Point" =>
          (geometry.kind = "numbers" /\ Len(geometry.coordinates) = 2)
    /\ geometry.type = "Polygon" => geometry.kind = "nested"

\* C19: the schema validator run before the transformer accepts a geometry
\* only if its coordinates have the structure required by its type tag
\* (Point: one [lng, lat] pair; Polygon: a list of rings of [lng, lat]
\* pairs), so computeCentroid is never called, after validation, with a
\* Point carrying polygon-shaped coordinates or a Polygon carrying a single
\* pair.
C19_AsStated ==
    geo.schema = "accepted" =>
        /\ geo.geometry.type \in {"Point", "Polygon"}
        /\ StructureOfTag(geo.geometry)

-----------------------------------------------------------------------------
(* Claims about concurrent requests, checked under SpecConcurrent.          *)

CallIds == 1 .. Len(calls)

Answered(c) == calls[c].stage = "done" /\ calls[c].response.status = 200

\* The cell of a document a query returned.
FoundCell(docs, id) == quantizeCentroid(docs[id].centroid.coordinates, DefaultGridSize)

RECURSIVE FoundTotal(_, _, _)
FoundTotal(docs, ids, category) ==
    IF ids = {} THEN Whole(0)
    ELSE LET id == CHOOSE i \in ids : TRUE
         IN  NumAdd(docs[id].scores[category], FoundTotal(docs, ids \ {id}, category))

\* The features are the aggregation of exactly the documents docs: one
\* feature per cell among them, its count the number of the cell's
\* documents and its weight a tenth of the mean of their category scores.
AggregationOf(features, docs, category) ==
    /\ Len(features) = Cardinality({ FoundCell(docs, id) : id \in DOMAIN docs })
    /\ \A id \in DOMAIN docs :
          \E i \in 1 .. Len(features) : features[i].coordinates = FoundCell(docs, id)
    /\ \A i \in 1 .. Len(features) :
          LET members == { id \in DOMAIN docs :
                             FoundCell(docs, id) = features[i].coordinates }
          IN  /\ features[i].count = Cardinality(members)
              /\ members # {}
              /\ NumMul(features[i].weight, Whole(10 * Cardinality(members)))
                    = FoundTotal(docs, members, category)

\* A step of the calls leaves the collection alone and changes one call
\* only; no step changes what a call's query returned or a call's response
\* once it has them.
CallsIsolated ==
    /\ calls' # calls =>
          /\ store' = store
          /\ Cardinality({ c \in CallIds : calls'[c] # calls[c] }) <= 1
    /\ \A c \in CallIds :
          /\ calls[c].stage \in {"found", "done"} => calls'[c].found = calls[c].found
          /\ calls[c].stage = "done" => calls'[c] = calls[c]

\* C20: aggregation calls share no mutable state: under any interleaving of
\* concurrent heatmap requests with each other and with rating writes, each
\* call's output is the aggregation of exactly the record set its own
\* storage query returned, and no call changes the output of another or
\* modifies any stored rating.
C20_CallsShareNoState ==
    /\ [](\A c \in CallIds :
            Answered(c) =>
                AggregationOf(calls[c].response.features, calls[c].found,
                              calls[c].response.category))
    /\ [][CallsIsolated]_vars

\* Two calls with the same request were answered differently, each from its
\* own query: the first query ran before the document was flagged, its
\* aggregation after; the second query ran after the flag.
C20_Witness ==
    \E c, d \in CallIds :
        /\ Answered(c) /\ Answered(d)
        /\ calls[c].request = calls[d].request
        /\ Len(calls[c].response.features) = 1
        /\ calls[c].response.features[1].count = 1
        /\ calls[d].response.features = <<>>
        /\ \A id \in DOMAIN store : store[id].status = "pending"

-----------------------------------------------------------------------------
(* Claims about what the handlers write, checked under SpecIngest.          *)

\* No step changes the geometry or the centroid of a document that exists
\* before and after it.
GeometryKept ==
    \A id \in DOMAIN store \cap DOMAIN store' :
        /\ store'[id].geometry = store[id].geometry
        /\ store'[id].centroid = store[id].centroid

\* C21: a rating record's geometry and centroid are immutable after creation:
\* no status PATCH, owner PATCH or flag, in any sequence, changes the geometry
\* or the centroid of an existing record.
C21_GeometryAndCentroidImmutable == [][GeometryKept]_vars

\* A polygon's document whose scores its owner has replaced and whose status
\* an admin has set to rejected.
C21_Witness ==
    \E id \in DOMAIN store :
        /\ store[id].geometry = Polygon(<<SquareRing, HoleRing>>)
        /\ store[id].scores = Scores(1, 3, 5)
        /\ store[id].status = "rejected"

\* What a step may change of a document that exists before and after it, were
\* status changes the only mutation: nothing but the status.
OnlyStatusChanges ==
    \A id \in DOMAIN store \cap DOMAIN store' :
        [store'[id] EXCEPT !.status = store[id].status] = store[id]

\* C22 as stated: after creation a rating record is mutated only by moderation
\* status changes, so no other request changes the scores that feed the
\* heatmap.
C22_AsStated == [][OnlyStatusChanges]_vars

\* The status of document id is approved after the step and was not before.
BecomesApproved(id) ==
    /\ id \in DOMAIN store'
    /\ store'[id].status = "approved"
    /\ id \in DOMAIN store => store[id].status # "approved"

\* A step that makes a document approved creates it with a note the filter
\* does not flag, or answers an admin's PATCH.
ApprovedByCreationOrAdmin ==
    \A id \in DOMAIN store' :
        BecomesApproved(id) =>
            IF id \notin DOMAIN store
            THEN /\ response'.op = "POST /api/ratings"
                 /\ store'[id].note = Missing \/ ~containsProfanity(store'[id].note)
            ELSE /\ response'.op = "PATCH /api/ratings/[id]"
                 /\ response'.status = 200
                 /\ IsAdmin(response'.session)

\* A step that answers a flag leaves every document it changed pending.
FlagLeavesPending ==
    response'.op = "POST /api/ratings/flag" =>
        \A id \in DOMAIN store \cap DOMAIN store' :
            store'[id] # store[id] => store'[id].status = "pending"

\* C29: a rating's status becomes approved only at creation (when moderation
\* does not flag the note) or through a status PATCH issued by an admin; no
\* request of a non-admin user (owner PATCH, PATCH carrying a status, flag)
\* moves a pending or rejected rating to approved, and a flag leaves the
\* rating pending.
C29_ApprovedOnlyByCreationOrAdmin ==
    [][ApprovedByCreationOrAdmin /\ FlagLeavesPending]_vars

\* A document created pending whose owner's PATCH was answered 200 and which
\* is still pending.
C29_Witness ==
    /\ response = ReplyTo("PATCH /api/ratings/[id]", 200, "alice")
    /\ \E id \in DOMAIN store :
          /\ store[id].note = "profane"
          /\ store[id].scores = Scores(1, 3, 5)
          /\ store[id].status = "pending"

-----------------------------------------------------------------------------
(* Claims about the simple rate limiter, checked under SpecDaily.           *)

CheckIds == 1 .. Len(checks)

\* The calls up to the i-th that were allowed for its key within the 24
\* hours that end with it.
AllowedInDay(i) ==
    {j \in 1 .. i : /\ checks[j].key = checks[i].key
                    /\ checks[j].allowed
                    /\ checks[j].time > checks[i].time - DayWindow}

\* The calls up to the i-th that were allowed for its key in its window: the
\* limiter names a call's window by the resetTime it returns.
AllowedInWindow(i) ==
    {j \in 1 .. i : /\ checks[j].key = checks[i].key
                    /\ checks[j].allowed
                    /\ checks[j].resetTime = checks[i].resetTime}

\* C24 as stated: with checkRateLimit(key, 10), in any 24-hour interval at
\* most 10 calls for the same key return allowed = true, and the returned
\* remaining is 10 minus the number of calls allowed so far in the current
\* window, never negative.
C24_AsStated ==
    \A i \in CheckIds :
        /\ Cardinality(AllowedInDay(i)) <= DailyLimit
        /\ checks[i].remaining = DailyLimit - Cardinality(AllowedInWindow(i))
        /\ checks[i].remaining >= 0

\* C24, amended: at most 10 calls for the same key return allowed = true in
\* one window of the limiter, the 24 hours that follow the call that opens
\* it (the first call for the key, or the first made after the previous
\* window's resetTime); the returned remaining is 10 minus the number of
\* calls allowed so far in that window and is never negative.
C24_TenPerWindow ==
    \A i \in CheckIds :
        /\ Cardinality(AllowedInWindow(i)) <= DailyLimit
        /\ checks[i].remaining = DailyLimit - Cardinality(AllowedInWindow(i))
        /\ checks[i].remaining >= 0
        /\ checks[i].time <= checks[i].resetTime
        /\ checks[i].time >= checks[i].resetTime - DayWindow
        /\ \E j \in AllowedInWindow(i) : checks[j].time = checks[i].resetTime - DayWindow

\* Ten calls allowed in one window, an eleventh refused in it with nothing
\* remaining, and a call allowed in the window after it.
C24_Witness ==
    \E i, j \in CheckIds :
        /\ i < j
        /\ ~checks[i].allowed /\ checks[i].remaining = 0
        /\ Cardinality(AllowedInWindow(i)) = DailyLimit
        /\ checks[j].allowed /\ checks[j].resetTime > checks[i].resetTime

-----------------------------------------------------------------------------
(* Claims about the enhanced rate limiter, checked under SpecSliding.       *)

\* C23 as stated: with the enhanced rate limiter (RATING_SUBMIT) a user has
\* at most 10 rating submissions accepted by the rate-limit check in any
\* 24-hour interval, however the submissions interleave with the limiter's
\* periodic cleanup.
C23_AsStated ==
    \A i \in CheckIds :
        checks[i].config = "RATING_SUBMIT" =>
            Cardinality(AllowedInDay(i)) <= RATE_LIMITS.RATING_SUBMIT.maxRequests

\* The calls before the i-th that were allowed for its key within the
\* windowMs of its configuration that precede it.
EarlierInWindow(i) ==
    {j \in 1 .. i - 1 :
        /\ checks[j].key = checks[i].key
        /\ checks[j].allowed
        /\ checks[j].time > checks[i].time - RATE_LIMITS[checks[i].config].windowMs}

RECURSIVE StoreWithoutCleanup(_)
\* The store the first n recorded calls leave when no cleanup runs.
StoreWithoutCleanup(n) ==
    IF n = 0 THEN <<>>
    ELSE checkLimit(StoreWithoutCleanup(n - 1), checks[n].key,
                    RATE_LIMITS[checks[n].config], checks[n].time).store

\* C28 as stated: the periodic cleanup removes only state that can no longer
\* affect a decision: every checkLimit call returns the allowed and remaining
\* it would return had cleanup never run.
C28_AsStated ==
    \A i \in CheckIds :
        LET uncleaned == checkLimit(StoreWithoutCleanup(i - 1), checks[i].key,
                                    RATE_LIMITS[checks[i].config], checks[i].time)
        IN  /\ checks[i].allowed = uncleaned.allowed
            /\ checks[i].remaining = uncleaned.remaining

-----------------------------------------------------------------------------
(* Claims about rejected submissions, checked under SpecReject.             *)

\* The step answers a POST /api/ratings with one of the statuses.
PostAnswered(statuses) ==
    response'.op = "POST /api/ratings" /\ response'.status \in statuses

\* A step that answers 400, 401 or 429 creates no document; one that answers
\* 400 or 401 leaves both limiters as they were.
RejectionKeepsState ==
    /\ PostAnswered({400, 401, 429}) =>
          UNCHANGED <<store, nextId, jitterLog>>
    /\ PostAnswered({400, 401}) =>
          UNCHANGED <<rateLimitStore, rateLimiter, checks>>

\* C30: a rating submission that is rejected leaves the stored state
\* unchanged: a POST /api/ratings answered 400, 401 or 429 creates no rating
\* record, and one answered 400 or 401 also leaves the submitter's rate-limit
\* count unchanged.
C30_RejectionKeepsState == [][RejectionKeepsState]_vars

\* A submission refused with 400 after the enhanced limiter has counted ten
\* submissions of the user and refused an eleventh with 429: ten documents
\* and ten counted requests.
C30_Witness ==
    /\ response = Reply("POST /api/ratings", 400)
    /\ Cardinality(DOMAIN store) = RATE_LIMITS.RATING_SUBMIT.maxRequests
    /\ "alice" \in DOMAIN rateLimiter
    /\ rateLimiter["alice"].blocked
    /\ Len(rateLimiter["alice"].requests) = RATE_LIMITS.RATING_SUBMIT.maxRequests

-----------------------------------------------------------------------------
(* Claims about the content analysis, checked under SpecNotes.              *)

\* The text holds a word that a pattern of the profanity filter matches:
\* the filter's verdict when none of its expressions has been used.
MatchedByFilter(text) == EnhancedContainsProfanity(text, FreshIndex).found

\* C26 as stated: every rating submission whose note contains a word matched
\* by the profanity filter is stored with status pending and never approved,
\* whatever submissions were processed before it.
C26_AsStated ==
    \A id \in DOMAIN store :
        (store[id].note # Null /\ MatchedByFilter(store[id].note))
            => store[id].status = "pending"

-----------------------------------------------------------------------------
(* Claims about the sign-in attempts, checked under SpecAuth.               *)

\* The attempts up to the i-th that went on to look up the account of the
\* i-th and compare its password, within the 15 minutes that end with it.
LookupsInWindow(i) ==
    {j \in 1 .. i : /\ checks[j].lookup = checks[i].lookup
                    /\ checks[j].time > checks[i].time - RATE_LIMITS.AUTH_ATTEMPTS.windowMs}

\* C25 as stated: for any account email at most 5 credential authentication
\* attempts within any 15-minute window proceed to the user lookup and the
\* password comparison; every further attempt for the account in the window
\* is rejected without the password being checked, whatever letter case or
\* surrounding whitespace the submitted email uses.
C25_AsStated ==
    \A i \in CheckIds :
        checks[i].lookup # Null =>
            Cardinality(LookupsInWindow(i)) <= RATE_LIMITS.AUTH_ATTEMPTS.maxRequests

=============================================================================
